---- MODULE Spec2Model ----
(***************************************************************************)
(* Ledger state-transition functions of the Blockchain_Traceability        *)
(* repository: the consortium handler, the public handler and the          *)
(* trace_data handler, each applied one transaction at a time to a         *)
(* key-value state context.                                                *)
(*                                                                         *)
(* Modelling conventions                                                   *)
(*  - A processor runs one handler (main() adds exactly one), so `family`  *)
(*    is chosen once and the three families never share a store.           *)
(*  - SHA-512 / SHA-256 are modelled as injective tags over the string fed *)
(*    to them; the string concatenations that build that string are        *)
(*    modelled as real concatenations, so their ambiguity is visible.      *)
(*  - The handlers call State._make_asset_address and State.make_address,  *)
(*    names the State class does not define; the model resolves both to    *)
(*    State._make_address / State._make_user_address, the way the clients' *)
(*    generate_address(user_id, data_id=None) computes the same address.   *)
(*    The public handler's module-level names json and InvalidTransaction  *)
(*    are taken as bound to the library objects the other handlers import. *)
(*  - An exception leaving apply() is the call's outcome: its class and,   *)
(*    for InvalidTransaction, the rejection it stands for.                 *)
(***************************************************************************)
EXTENDS Integers, Sequences, FiniteSets, TLC

VARIABLES family, store, last, uploaded, detection, experiment, scan

vars == <<family, store, last, uploaded, detection, experiment, scan>>

\* the state outside the ledger, which applying a transaction never touches:
\* the off-chain programs (detector call, experiment runner) and the position
\* of a provenance scan that is under way
offline == <<detection, experiment, scan>>
NoDetection == [method |-> "none"]
NoExperiment == [pc |-> "idle"]
NoScan == [pc |-> "idle"]

-----------------------------------------------------------------------------
(* Bounds and input alphabets *)

\* most signature hashes the consortium ledger holds, over all its records
MaxSigs == 3

Families == {"consortium", "public", "trace_data"}

ADMIN == "admin_public_key"

\* user ids: "ab" = "a" \o "b" makes the concatenated key ambiguous
UserIDs(f) == IF f = "consortium" THEN {"a", "ab"}
              ELSE IF f = "public" THEN {"a", "block_1"}
              ELSE {}

AssetIDs(f) == IF f \in {"consortium", "public"} THEN {"b"} ELSE {}

AssetData(f) == IF f = "public" THEN {"d", "e"} ELSE {"d"}

\* signer public keys; a user may use its key as its id
Signers == {ADMIN, "a", "ab"}

FakeData == {"x", "y"}
MetaData == {"m1", "m2"}
Timestamps == {"t1", "t2"}

-----------------------------------------------------------------------------
(* hashlib, json and bytes *)

sha512(s) == <<"sha512", s>>
sha256(s) == <<"sha256", s>>

NAMESPACE(f) == <<"ns", IF f = "trace_data" THEN "trace_data" ELSE "example_family">>

None == [kind |-> "None"]

\* str.encode('utf-8') of a plain string
encode(s) == [kind |-> "text", text |-> s]

\* json.dumps(obj).encode('utf-8')
json_dumps(obj) == [kind |-> "json", obj |-> obj]

\* bool(x) of a value read from the state: None and b"" are falsy
Truthy(v) == /\ v # None
             /\ ~(v.kind = "text" /\ v.text = "")

OK == [exc |-> "None", why |-> "ok", value |-> <<>>]
OKWith(v) == [exc |-> "None", why |-> "ok", value |-> v]
Raise(exc, why) == [exc |-> exc, why |-> why, value |-> <<>>]
InvalidTransaction(why) == Raise("InvalidTransaction", why)

\* json.loads(x): TypeError on None, JSONDecodeError (a ValueError) on a
\* public-key string, the object otherwise
json_loads_error(v) == IF v = None THEN Raise("TypeError", "json.loads(None)")
                       ELSE IF v.kind = "text" THEN Raise("ValueError", "JSONDecodeError")
                       ELSE OK
json_loads(v) == v.obj

-----------------------------------------------------------------------------
(* transaction_family.State over the context's address -> bytes mapping *)

\* State.get: None when the context holds nothing at the address
State_get(st, address) == IF st[address] = None THEN None ELSE st[address]

\* State.set: context.set_state({address: data.encode('utf-8')})
State_set(st, address, bytes) == [st EXCEPT ![address] = bytes]

\* State.delete: context.delete_state([address])
State_delete(st, address) == [st EXCEPT ![address] = None]

\* NAMESPACE + sha512(f"{user_id}{data_id}")[0:64]
_make_address(f, user_id, data_id) == <<NAMESPACE(f), sha512(user_id \o data_id)>>

\* NAMESPACE + sha512(user_id)[0:64]
_make_user_address(f, user_id) == <<NAMESPACE(f), sha512(user_id)>>

\* the users a provenance scan enumerates, in enumeration order
list_users == <<"a", "ab">>

\* the fixed buckets the public trace looks into
Blocks == {"block_1", "block_2"}
blocks == <<"block_1", "block_2">>

\* trace_data_processor.make_address(key)
make_address(key) == <<NAMESPACE("trace_data"), sha512(key)>>

Addresses(f) ==
    IF f = "trace_data" THEN {make_address(k) : k \in FakeData}
    ELSE {_make_user_address(f, u) : u \in UserIDs(f)}
         \cup {_make_address(f, u, a) : u \in UserIDs(f) \cup Blocks, a \in AssetIDs(f)}

EmptyStore(f) == [a \in Addresses(f) |-> None]

\* what a handler hands back: the context afterwards and how apply() ended
Result(st, outcome) == [store |-> st, outcome |-> outcome]

-----------------------------------------------------------------------------
(* transaction-processor-consortitum.py: ConsortiumTransactionHandler *)

\* _is_admin
_is_admin(signer) == signer = ADMIN

\* _authenticate_user: unconditional write of the signer key at the user address
Consortium_authenticate_user(st, args, signer) ==
    IF Len(args) = 0 THEN Result(st, Raise("IndexError", "args[0]"))
    ELSE LET user_address == _make_user_address("consortium", args[1])
         IN Result(State_set(st, user_address, encode(signer)), OK)

\* variant of _upload_asset that skips the existence check
Consortium_upload_asset_overwrite(st, args, signer) ==
    IF Len(args) # 3 THEN Result(st, Raise("ValueError", "unpack"))
    ELSE LET asset_address == _make_address("consortium", args[1], args[3])
            asset_entry == [asset_id |-> args[3],
                            data |-> args[2],
                            signatures |-> <<sha256(args[2] \o signer)>>,
                            publisher |-> signer]
        IN Result(State_set(st, asset_address, json_dumps(asset_entry)), OK)

\* variant of _upload_asset that records the user id as publisher
Consortium_upload_asset_user_publisher(st, args, signer) ==
    IF Len(args) # 3 THEN Result(st, Raise("ValueError", "unpack"))
    ELSE LET asset_address == _make_address("consortium", args[1], args[3])
            asset_entry == [asset_id |-> args[3],
                            data |-> args[2],
                            signatures |-> <<sha256(args[2] \o signer)>>,
                            publisher |-> args[1]]
        IN IF Truthy(State_get(st, asset_address))
           THEN Result(st, InvalidTransaction("AlreadyExists"))
           ELSE Result(State_set(st, asset_address, json_dumps(asset_entry)), OK)

\* _upload_asset: existence check, then the first record of the asset
Consortium_upload_asset(st, args, signer) ==
    IF Len(args) # 3 THEN Result(st, Raise("ValueError", "unpack"))
    ELSE LET user_id == args[1]
             asset_data == args[2]
             asset_id == args[3]
             asset_address == _make_address("consortium", user_id, asset_id)
             asset_signature_hash == sha256(asset_data \o signer)
             asset_entry == [asset_id |-> asset_id,
                             data |-> asset_data,
                             signatures |-> <<asset_signature_hash>>,
                             publisher |-> signer]
         IN IF Truthy(State_get(st, asset_address))
            THEN Result(st, InvalidTransaction("AlreadyExists"))
            ELSE Result(State_set(st, asset_address, json_dumps(asset_entry)), OK)

\* variant of _transfer_asset that skips the publisher check
Consortium_transfer_asset_any_signer(st, args, signer) ==
    IF Len(args) # 3 THEN Result(st, Raise("ValueError", "unpack"))
    ELSE LET asset_address == _make_address("consortium", args[1], args[3])
            bytes == State_get(st, asset_address)
        IN IF json_loads_error(bytes) # OK THEN Result(st, json_loads_error(bytes))
           ELSE LET asset_entry == json_loads(bytes)
                    updated == [asset_entry EXCEPT
                                  !.signatures = Append(@, sha256(asset_entry.data \o signer)),
                                  !.publisher = args[2]]
                IN Result(State_set(st, asset_address, json_dumps(updated)), OK)

\* variant of _transfer_asset that keeps the signer as publisher, as the
\* public handler's trade does
Consortium_transfer_asset_keeps_publisher(st, args, signer) ==
    IF Len(args) # 3 THEN Result(st, Raise("ValueError", "unpack"))
    ELSE LET asset_address == _make_address("consortium", args[1], args[3])
            bytes == State_get(st, asset_address)
        IN IF json_loads_error(bytes) # OK THEN Result(st, json_loads_error(bytes))
           ELSE LET asset_entry == json_loads(bytes)
                    updated == [asset_entry EXCEPT
                                  !.signatures = Append(@, sha256(asset_entry.data \o signer)),
                                  !.publisher = signer]
                IN IF asset_entry.publisher # signer
                   THEN Result(st, InvalidTransaction("NotPublisher"))
                   ELSE Result(State_set(st, asset_address, json_dumps(updated)), OK)

\* variant of _transfer_asset that also lets the key equal to the seller id sign
Consortium_transfer_asset_seller_may_sign(st, args, signer) ==
    IF Len(args) # 3 THEN Result(st, Raise("ValueError", "unpack"))
    ELSE LET asset_address == _make_address("consortium", args[1], args[3])
            bytes == State_get(st, asset_address)
        IN IF json_loads_error(bytes) # OK THEN Result(st, json_loads_error(bytes))
           ELSE LET asset_entry == json_loads(bytes)
                    updated == [asset_entry EXCEPT
                                  !.signatures = Append(@, sha256(asset_entry.data \o signer)),
                                  !.publisher = args[2]]
                IN IF asset_entry.publisher # signer /\ args[1] # signer
                   THEN Result(st, InvalidTransaction("NotPublisher"))
                   ELSE Result(State_set(st, asset_address, json_dumps(updated)), OK)

\* _transfer_asset: json.loads of whatever the address holds, publisher check,
\* append of the signer's hash, publisher := buyer_id, rewrite of the same address
\* a transfer that moves the record to the buyer's address, as the public
\* variant does
Consortium_transfer_asset_moves(st, args, signer) ==
    IF Len(args) # 3 THEN Result(st, Raise("ValueError", "unpack"))
    ELSE LET seller_id == args[1]
             buyer_id == args[2]
             asset_id == args[3]
             asset_address == _make_address("consortium", seller_id, asset_id)
             buyer_address == _make_address("consortium", buyer_id, asset_id)
             bytes == State_get(st, asset_address)
         IN IF json_loads_error(bytes) # OK THEN Result(st, json_loads_error(bytes))
            ELSE LET asset_entry == json_loads(bytes)
                     buyer_signature_hash == sha256(asset_entry.data \o signer)
                     updated == [asset_entry EXCEPT
                                   !.signatures = Append(@, buyer_signature_hash),
                                   !.publisher = buyer_id]
                 IN IF asset_entry.publisher # signer
                    THEN Result(st, InvalidTransaction("NotPublisher"))
                    ELSE Result(State_delete(State_set(st, buyer_address,
                                                       json_dumps(updated)),
                                             asset_address), OK)

Consortium_transfer_asset(st, args, signer) ==
    IF Len(args) # 3 THEN Result(st, Raise("ValueError", "unpack"))
    ELSE LET seller_id == args[1]
             buyer_id == args[2]
             asset_id == args[3]
             asset_address == _make_address("consortium", seller_id, asset_id)
             bytes == State_get(st, asset_address)
         IN IF json_loads_error(bytes) # OK THEN Result(st, json_loads_error(bytes))
            ELSE LET asset_entry == json_loads(bytes)
                     buyer_signature_hash == sha256(asset_entry.data \o signer)
                     updated == [asset_entry EXCEPT
                                   !.signatures = Append(@, buyer_signature_hash),
                                   !.publisher = buyer_id]
                 IN IF asset_entry.publisher # signer
                    THEN Result(st, InvalidTransaction("NotPublisher"))
                    ELSE Result(State_set(st, asset_address, json_dumps(updated)), OK)

\* variant of _query_asset that stores the hash it computes in the record
Consortium_query_asset_records_hash(st, args, signer) ==
    IF Len(args) # 2 THEN Result(st, Raise("ValueError", "unpack"))
    ELSE LET asset_address == _make_address("consortium", args[1], args[2])
            bytes == State_get(st, asset_address)
        IN IF json_loads_error(bytes) # OK THEN Result(st, json_loads_error(bytes))
           ELSE LET asset_entry == json_loads(bytes)
                    user_signature == sha256(asset_entry.data \o signer)
                    updated == [asset_entry EXCEPT !.signatures = Append(@, user_signature)]
                IN Result(State_set(st, asset_address, json_dumps(updated)),
                          OKWith(<<user_signature>>))

\* _query_asset: json.loads first; the "not asset_entry" test only sees a
\* decoded object, which is never empty
Consortium_query_asset(st, args, signer) ==
    IF Len(args) # 2 THEN Result(st, Raise("ValueError", "unpack"))
    ELSE LET user_id == args[1]
             asset_id == args[2]
             asset_address == _make_address("consortium", user_id, asset_id)
             bytes == State_get(st, asset_address)
         IN IF json_loads_error(bytes) # OK THEN Result(st, json_loads_error(bytes))
            ELSE Result(st, OKWith(<<sha256(json_loads(bytes).data \o signer)>>))

\* _trace_asset: admin gate, then one json.loads(state.get(...)) per listed user
Consortium_trace_asset(st, args, signer) ==
    IF ~_is_admin(signer) THEN Result(st, InvalidTransaction("NotAdmin"))
    ELSE IF Len(args) = 0 THEN Result(st, Raise("IndexError", "args[0]"))
    ELSE LET asset_id == args[1]
             read(i) == State_get(st, _make_address("consortium", list_users[i], asset_id))
             failing == {i \in 1..Len(list_users) : json_loads_error(read(i)) # OK}
             first == CHOOSE i \in failing : \A j \in failing : i <= j
             entry(i) == [user_id |-> list_users[i],
                          signatures |-> json_loads(read(i)).signatures]
             trace_info == [i \in 1..Len(list_users) |-> entry(i)]
         IN IF failing # {} THEN Result(st, json_loads_error(read(first)))
            ELSE Result(st, OKWith(trace_info))

ConsortiumOperations ==
    {"authenticate_user", "upload_asset", "transfer_asset", "query_asset", "trace_asset"}

\* apply: dispatch on payload['operation']
\* a dispatch whose final else accepts instead of raising
Consortium_apply_accepts_unknown(st, operation, args, signer) ==
    IF operation = "authenticate_user" THEN Consortium_authenticate_user(st, args, signer)
    ELSE IF operation = "upload_asset" THEN Consortium_upload_asset(st, args, signer)
    ELSE IF operation = "transfer_asset" THEN Consortium_transfer_asset(st, args, signer)
    ELSE IF operation = "query_asset" THEN Consortium_query_asset(st, args, signer)
    ELSE IF operation = "trace_asset" THEN Consortium_trace_asset(st, args, signer)
    ELSE Result(st, OK)

Consortium_apply(st, operation, args, signer) ==
    IF operation = "authenticate_user" THEN Consortium_authenticate_user(st, args, signer)
    ELSE IF operation = "upload_asset" THEN Consortium_upload_asset(st, args, signer)
    ELSE IF operation = "transfer_asset" THEN Consortium_transfer_asset(st, args, signer)
    ELSE IF operation = "query_asset" THEN Consortium_query_asset(st, args, signer)
    ELSE IF operation = "trace_asset" THEN Consortium_trace_asset(st, args, signer)
    ELSE Result(st, InvalidTransaction("UnknownOperation"))

\* the payload bytes of a well-formed transaction
Payload(operation, args) == json_dumps([operation |-> operation, args |-> args])

\* payload bytes that are no JSON document, and JSON objects lacking a field
NotJson == encode("not json")
NoOperation == json_dumps([args |-> <<>>])
NoArgs == json_dumps([operation |-> "upload_asset"])
MalformedPayloads == {NotJson, NoOperation, NoArgs}

\* apply, from the top: json.loads(transaction.payload.decode()),
\* payload['operation'], payload['args'], then the dispatch; none of the
\* three is guarded
Consortium_apply_transaction(st, payload, signer) ==
    IF payload.kind # "json" THEN Result(st, Raise("ValueError", "JSONDecodeError"))
    ELSE IF "operation" \notin DOMAIN payload.obj THEN Result(st, Raise("KeyError", "operation"))
    ELSE IF "args" \notin DOMAIN payload.obj THEN Result(st, Raise("KeyError", "args"))
    ELSE Consortium_apply(st, payload.obj.operation, payload.obj.args, signer)

-----------------------------------------------------------------------------
(* transaction-processor-public.py: PublicBlockchainTransactionHandler *)

\* _authenticate_user: a pure existence check of the user address
Public_authenticate_user(st, args) ==
    IF Len(args) = 0 THEN Result(st, Raise("IndexError", "args[0]"))
    ELSE LET address == _make_user_address("public", args[1])
         IN IF Truthy(State_get(st, address))
            THEN Result(st, OK)
            ELSE Result(st, InvalidTransaction("NotFound"))

\* _upload_asset
Public_upload_asset(st, args, signer) ==
    IF Len(args) # 3 THEN Result(st, Raise("ValueError", "unpack"))
    ELSE LET user_id == args[1]
             asset_data == args[2]
             asset_id == args[3]
             address == _make_address("public", user_id, asset_id)
             asset_entry == [asset_id |-> asset_id,
                             asset_data |-> asset_data,
                             publisher |-> signer,
                             upload_block |-> "block_height_example"]
         IN IF Truthy(State_get(st, address))
            THEN Result(st, InvalidTransaction("AlreadyExists"))
            ELSE Result(State_set(st, address, json_dumps(asset_entry)), OK)

\* variant of _trade_asset that writes the buyer's address before the
\* publisher check
Public_trade_asset_set_first(st, args, signer) ==
    IF Len(args) # 3 THEN Result(st, Raise("ValueError", "unpack"))
    ELSE LET seller_address == _make_address("public", args[1], args[3])
            buyer_address == _make_address("public", args[2], args[3])
            result == State_get(st, seller_address)
        IN IF ~Truthy(result) THEN Result(st, InvalidTransaction("NotFound"))
           ELSE LET asset_entry == json_loads(result)
                    moved == [asset_entry EXCEPT !.publisher = signer]
                    afterSet == State_set(st, buyer_address, json_dumps(moved))
                IN IF asset_entry.publisher # signer
                   THEN Result(afterSet, InvalidTransaction("NotPublisher"))
                   ELSE Result(State_delete(afterSet, seller_address), OK)

\* _trade_asset: existence and publisher checks, then set at the buyer's
\* address followed by delete of the seller's address
Public_trade_asset(st, args, signer) ==
    IF Len(args) # 3 THEN Result(st, Raise("ValueError", "unpack"))
    ELSE LET seller_id == args[1]
             buyer_id == args[2]
             asset_id == args[3]
             seller_address == _make_address("public", seller_id, asset_id)
             result == State_get(st, seller_address)
         IN IF ~Truthy(result) THEN Result(st, InvalidTransaction("NotFound"))
            ELSE LET asset_entry == json_loads(result)
                     buyer_address == _make_address("public", buyer_id, asset_id)
                     moved == [asset_entry EXCEPT !.publisher = signer]
                     afterSet == State_set(st, buyer_address, json_dumps(moved))
                 IN IF asset_entry.publisher # signer
                    THEN Result(st, InvalidTransaction("NotPublisher"))
                    ELSE Result(State_delete(afterSet, seller_address), OK)

\* _query_asset
Public_query_asset(st, args, signer) ==
    IF Len(args) # 2 THEN Result(st, Raise("ValueError", "unpack"))
    ELSE LET address == _make_address("public", args[1], args[2])
             result == State_get(st, address)
         IN IF ~Truthy(result) THEN Result(st, InvalidTransaction("NotFound"))
            ELSE Result(st, OKWith(<<result>>))

\* _trace_asset: no gate; the first of the two buckets that holds something
Public_trace_asset(st, args, signer) ==
    IF Len(args) = 0 THEN Result(st, Raise("IndexError", "args[0]"))
    ELSE LET asset_id == args[1]
             read(i) == State_get(st, _make_address("public", blocks[i], asset_id))
             found == {i \in 1..Len(blocks) : Truthy(read(i))}
             first == CHOOSE i \in found : \A j \in found : i <= j
         IN IF found # {} THEN Result(st, OKWith(<<read(first)>>))
            ELSE Result(st, InvalidTransaction("NotFound"))

PublicOperations ==
    {"authenticate", "upload_asset", "trade_asset", "query_asset", "trace_asset"}

\* apply: dispatch on payload.operation
Public_apply(st, operation, args, signer) ==
    IF operation = "authenticate" THEN Public_authenticate_user(st, args)
    ELSE IF operation = "upload_asset" THEN Public_upload_asset(st, args, signer)
    ELSE IF operation = "trade_asset" THEN Public_trade_asset(st, args, signer)
    ELSE IF operation = "query_asset" THEN Public_query_asset(st, args, signer)
    ELSE IF operation = "trace_asset" THEN Public_trace_asset(st, args, signer)
    ELSE Result(st, InvalidTransaction("UnknownOperation"))

\* TransactionPayload.from_bytes: only ValueError is turned into
\* InvalidTransaction; a missing key leaves as KeyError
TransactionPayload_from_bytes(payload) ==
    IF payload.kind # "json" THEN InvalidTransaction("MalformedPayload")
    ELSE IF "operation" \notin DOMAIN payload.obj THEN Raise("KeyError", "operation")
    ELSE IF "args" \notin DOMAIN payload.obj THEN Raise("KeyError", "args")
    ELSE OK

\* apply, from the top: from_bytes, then the dispatch
Public_apply_transaction(st, payload, signer) ==
    IF TransactionPayload_from_bytes(payload) # OK
    THEN Result(st, TransactionPayload_from_bytes(payload))
    ELSE Public_apply(st, payload.obj.operation, payload.obj.args, signer)

-----------------------------------------------------------------------------
(* trace_data_processor.py: TraceDataHandler *)

\* _get_state: the decoded entry, or None
_get_state(st, address) == IF st[address] = None THEN None ELSE json_loads(st[address])

\* _set_state
_set_state(st, address, bytes) == [st EXCEPT ![address] = bytes]

TraceActions == {"store", "trace"}

\* apply: every exception raised in the body, InvalidTransaction included, is
\* caught and raised again as InvalidTransaction
\* a store that leaves the timestamp out of the record it writes
TraceData_apply_drops_timestamp(st, payload) ==
    LET action == payload.action
        fakedata == payload.fakedata
        metadata == payload.metadata
    IN IF fakedata = "" THEN Result(st, InvalidTransaction("MissingFakedata"))
       ELSE LET address == make_address(fakedata)
                state_data == _get_state(st, address)
                data == [fakedata |-> fakedata, metadata |-> metadata]
            IN IF action = "store"
               THEN IF state_data # None
                    THEN Result(st, InvalidTransaction("AlreadyExists"))
                    ELSE Result(_set_state(st, address, json_dumps(data)), OK)
               ELSE IF action = "trace"
               THEN IF state_data = None
                    THEN Result(st, InvalidTransaction("NotFound"))
                    ELSE Result(st, OK)
               ELSE Result(st, InvalidTransaction("UnknownOperation"))

\* a trace without the existence check
TraceData_apply_trace_unchecked(st, payload) ==
    LET action == payload.action
        fakedata == payload.fakedata
        metadata == payload.metadata
    IN IF fakedata = "" THEN Result(st, InvalidTransaction("MissingFakedata"))
       ELSE LET address == make_address(fakedata)
                state_data == _get_state(st, address)
                data == [fakedata |-> fakedata,
                         metadata |-> metadata,
                         timestamp |-> payload.timestamp]
            IN IF action = "store"
               THEN IF state_data # None
                    THEN Result(st, InvalidTransaction("AlreadyExists"))
                    ELSE Result(_set_state(st, address, json_dumps(data)), OK)
               ELSE IF action = "trace"
               THEN Result(st, OK)
               ELSE Result(st, InvalidTransaction("UnknownOperation"))

\* a store without the existence check
TraceData_apply_store_overwrites(st, payload) ==
    LET action == payload.action
        fakedata == payload.fakedata
        metadata == payload.metadata
    IN IF fakedata = "" THEN Result(st, InvalidTransaction("MissingFakedata"))
       ELSE LET address == make_address(fakedata)
                state_data == _get_state(st, address)
                data == [fakedata |-> fakedata,
                         metadata |-> metadata,
                         timestamp |-> payload.timestamp]
            IN IF action = "store"
               THEN Result(_set_state(st, address, json_dumps(data)), OK)
               ELSE IF action = "trace"
               THEN IF state_data = None
                    THEN Result(st, InvalidTransaction("NotFound"))
                    ELSE Result(st, OK)
               ELSE Result(st, InvalidTransaction("UnknownOperation"))

TraceData_apply(st, payload) ==
    LET action == payload.action
        fakedata == payload.fakedata
        metadata == payload.metadata
    IN IF fakedata = "" THEN Result(st, InvalidTransaction("MissingFakedata"))
       ELSE LET address == make_address(fakedata)
                state_data == _get_state(st, address)
                data == [fakedata |-> fakedata,
                         metadata |-> metadata,
                         timestamp |-> payload.timestamp]
            IN IF action = "store"
               THEN IF state_data # None
                    THEN Result(st, InvalidTransaction("AlreadyExists"))
                    ELSE Result(_set_state(st, address, json_dumps(data)), OK)
               ELSE IF action = "trace"
               THEN IF state_data = None
                    THEN Result(st, InvalidTransaction("NotFound"))
                    ELSE Result(st, OK)
               ELSE Result(st, InvalidTransaction("UnknownOperation"))

\* payload.get(key, default)
dict_get(obj, key, default) == IF key \in DOMAIN obj THEN obj[key] ELSE default

\* the payload bytes of a trace_data transaction
TracePayload(action, fakedata, metadata, timestamp) ==
    json_dumps([action |-> action, fakedata |-> fakedata,
                metadata |-> metadata, timestamp |-> timestamp])

\* trace_data payloads that are no JSON document or lack a field
TraceMalformedPayloads ==
    {NotJson,
     json_dumps([fakedata |-> "x", metadata |-> "m1", timestamp |-> "t1"]),
     json_dumps([action |-> "store", metadata |-> "m1", timestamp |-> "t1"]),
     json_dumps([action |-> "store", fakedata |-> "y"]),
     json_dumps([action |-> "delete", metadata |-> "m1", timestamp |-> "t1"])}

\* apply, from the top: the json.loads and the payload.get calls sit inside
\* the try block, so a decoding error is raised again as InvalidTransaction;
\* an absent field reads as None (metadata as {}), and None is falsy like ""
TraceData_apply_transaction(st, payload) ==
    IF payload.kind # "json" THEN Result(st, InvalidTransaction("MalformedPayload"))
    ELSE TraceData_apply(st, [action |-> dict_get(payload.obj, "action", "None"),
                              fakedata |-> dict_get(payload.obj, "fakedata", ""),
                              metadata |-> dict_get(payload.obj, "metadata", "{}"),
                              timestamp |-> dict_get(payload.obj, "timestamp", "None")])

-----------------------------------------------------------------------------
(* The processor: one apply() per transaction, serialized by the platform *)

TypeOK ==
    /\ family \in Families
    /\ DOMAIN store = Addresses(family)
    /\ last.outcome.exc \in {"None", "InvalidTransaction", "TypeError", "ValueError",
                             "IndexError", "KeyError"}
    /\ uploaded \subseteq IF family = "trace_data" THEN {<<x>> : x \in FakeData}
                          ELSE UserIDs(family) \X AssetIDs(family)

Init ==
    /\ family \in Families
    /\ store = EmptyStore(family)
    /\ last = [payload |-> None, operation |-> "none", args |-> <<>>, signer |-> "",
               outcome |-> OK]
    /\ uploaded = {}
    /\ detection = NoDetection
    /\ experiment = NoExperiment
    /\ scan = NoScan

Call(operation, args, signer, outcome) ==
    [operation |-> operation, args |-> args, signer |-> signer, outcome |-> outcome]

\* what the processor last applied: the payload bytes, what they decode to
\* (nothing when they do not decode), the signer and how apply() ended
Transaction(payload, call) ==
    [payload |-> payload, operation |-> call.operation, args |-> call.args,
     signer |-> call.signer, outcome |-> call.outcome]

\* argument lists of the wrong length for an operation
WrongArgs(operation) ==
    IF operation \in {"authenticate_user", "authenticate"} THEN {<<>>, <<"a", "a">>}
    ELSE IF operation = "upload_asset" THEN {<<>>, <<"a", "d">>}
    ELSE IF operation \in {"transfer_asset", "trade_asset"} THEN {<<"a", "a">>}
    ELSE IF operation = "query_asset" THEN {<<"a">>}
    ELSE {<<>>, <<"b", "b">>}

\* the signatures the ledger holds, over all records, stay within the bound
SignatureSlots(st) ==
    UNION {{<<a, i>> : i \in 1..Len(st[a].obj.signatures)} :
             a \in {x \in DOMAIN st : st[x] # None /\ st[x].kind = "json"}}

SigsBounded(st) == Cardinality(SignatureSlots(st)) <= MaxSigs

ConsortiumSubmit(operation, args, signer) ==
    /\ family = "consortium"
    /\ \E r \in {Consortium_apply_transaction(store, Payload(operation, args), signer)} :
          /\ SigsBounded(r.store)
          /\ store' = r.store
          /\ last' = Transaction(Payload(operation, args),
                                 Call(operation, args, signer, r.outcome))
          /\ uploaded' = IF operation = "upload_asset" /\ r.outcome = OK
                         THEN uploaded \cup {<<args[1], args[3]>>}
                         ELSE uploaded
    /\ UNCHANGED family
    /\ UNCHANGED offline

ConsortiumAuthenticateUser ==
    \E u \in UserIDs("consortium"), s \in Signers :
        ConsortiumSubmit("authenticate_user", <<u>>, s)

ConsortiumUploadAsset ==
    \E u \in UserIDs("consortium"), d \in AssetData("consortium"), a \in AssetIDs("consortium"), s \in Signers :
        ConsortiumSubmit("upload_asset", <<u, d, a>>, s)

ConsortiumTransferAsset ==
    \E u \in UserIDs("consortium"), b \in UserIDs("consortium"),
       a \in AssetIDs("consortium"), s \in Signers :
        ConsortiumSubmit("transfer_asset", <<u, b, a>>, s)

ConsortiumQueryAsset ==
    \E u \in UserIDs("consortium"), a \in AssetIDs("consortium"), s \in Signers :
        ConsortiumSubmit("query_asset", <<u, a>>, s)

ConsortiumTraceAsset ==
    \E a \in AssetIDs("consortium"), s \in Signers :
        ConsortiumSubmit("trace_asset", <<a>>, s)

ConsortiumUnknownOperation ==
    \E s \in Signers : ConsortiumSubmit("trade_asset", <<>>, s)

ConsortiumWrongArgs ==
    \E operation \in ConsortiumOperations :
        \E args \in WrongArgs(operation) : ConsortiumSubmit(operation, args, ADMIN)

ConsortiumMalformedPayload ==
    /\ family = "consortium"
    /\ \E payload \in MalformedPayloads :
          \E r \in {Consortium_apply_transaction(store, payload, "a")} :
              /\ store' = r.store
              /\ last' = Transaction(payload, Call("", <<>>, "a", r.outcome))
    /\ UNCHANGED <<family, uploaded>>
    /\ UNCHANGED offline

PublicSubmit(operation, args, signer) ==
    /\ family = "public"
    /\ \E r \in {Public_apply_transaction(store, Payload(operation, args), signer)} :
          /\ store' = r.store
          /\ last' = Transaction(Payload(operation, args),
                                 Call(operation, args, signer, r.outcome))
          /\ uploaded' = IF operation = "upload_asset" /\ r.outcome = OK
                         THEN uploaded \cup {<<args[1], args[3]>>}
                         ELSE uploaded
    /\ UNCHANGED family
    /\ UNCHANGED offline

PublicAuthenticate ==
    \E u \in UserIDs("public"), s \in Signers :
        PublicSubmit("authenticate", <<u>>, s)

PublicUploadAsset ==
    \E u \in UserIDs("public"), d \in AssetData("public"), a \in AssetIDs("public"), s \in Signers :
        PublicSubmit("upload_asset", <<u, d, a>>, s)

PublicTradeAsset ==
    \E u \in UserIDs("public"), b \in UserIDs("public"),
       a \in AssetIDs("public"), s \in Signers :
        PublicSubmit("trade_asset", <<u, b, a>>, s)

PublicQueryAsset ==
    \E u \in UserIDs("public"), a \in AssetIDs("public"), s \in Signers :
        PublicSubmit("query_asset", <<u, a>>, s)

PublicTraceAsset ==
    \E a \in AssetIDs("public"), s \in Signers :
        PublicSubmit("trace_asset", <<a>>, s)

PublicUnknownOperation ==
    \E s \in Signers : PublicSubmit("transfer_asset", <<>>, s)

PublicWrongArgs ==
    \E operation \in PublicOperations :
        \E args \in WrongArgs(operation) : PublicSubmit(operation, args, ADMIN)

PublicMalformedPayload ==
    /\ family = "public"
    /\ \E payload \in MalformedPayloads :
          \E r \in {Public_apply_transaction(store, payload, "a")} :
              /\ store' = r.store
              /\ last' = Transaction(payload, Call("", <<>>, "a", r.outcome))
    /\ UNCHANGED <<family, uploaded>>
    /\ UNCHANGED offline

TraceDataSubmit(action, fakedata, metadata, timestamp, signer) ==
    /\ family = "trace_data"
    /\ \E r \in {TraceData_apply_transaction(
                      store, TracePayload(action, fakedata, metadata, timestamp))} :
          /\ store' = r.store
          /\ last' = Transaction(TracePayload(action, fakedata, metadata, timestamp),
                                 Call(action, <<fakedata, metadata, timestamp>>, signer,
                                      r.outcome))
          /\ uploaded' = IF action = "store" /\ r.outcome = OK
                         THEN uploaded \cup {<<fakedata>>}
                         ELSE uploaded
    /\ UNCHANGED family
    /\ UNCHANGED offline

TraceDataStore ==
    \E x \in FakeData \cup {""}, m \in MetaData, t \in Timestamps :
        TraceDataSubmit("store", x, m, t, "a")

TraceDataTrace ==
    \E x \in FakeData \cup {""}, m \in MetaData, t \in Timestamps :
        TraceDataSubmit("trace", x, m, t, "a")

TraceDataInvalidAction ==
    \E x \in FakeData \cup {""}, m \in MetaData, t \in Timestamps :
        TraceDataSubmit("delete", x, m, t, "a")

TraceDataMalformedPayload ==
    /\ family = "trace_data"
    /\ \E payload \in TraceMalformedPayloads :
          \E r \in {TraceData_apply_transaction(store, payload)} :
              /\ store' = r.store
              /\ last' = Transaction(payload, Call("", <<>>, "a", r.outcome))
              /\ uploaded' = IF r.outcome = OK /\ r.store # store
                             THEN uploaded \cup {<<payload.obj.fakedata>>}
                             ELSE uploaded
    /\ UNCHANGED family
    /\ UNCHANGED offline

Next ==
    \/ ConsortiumAuthenticateUser
    \/ ConsortiumUploadAsset
    \/ ConsortiumTransferAsset
    \/ ConsortiumQueryAsset
    \/ ConsortiumTraceAsset
    \/ ConsortiumUnknownOperation
    \/ ConsortiumWrongArgs
    \/ ConsortiumMalformedPayload
    \/ PublicAuthenticate
    \/ PublicUploadAsset
    \/ PublicTradeAsset
    \/ PublicQueryAsset
    \/ PublicTraceAsset
    \/ PublicUnknownOperation
    \/ PublicWrongArgs
    \/ PublicMalformedPayload
    \/ TraceDataStore
    \/ TraceDataTrace
    \/ TraceDataInvalidAction
    \/ TraceDataMalformedPayload

Spec == Init /\ [][Next]_vars

-----------------------------------------------------------------------------
(* Properties *)

Failed(call) == call.outcome.exc # "None"
Succeeded(call) == call.outcome.exc = "None"

\* the composite address an upload / transfer / trade / query call names
IsTransfer(call) ==
    /\ Len(call.args) = 3
    /\ \/ family = "consortium" /\ call.operation = "transfer_asset"
       \/ family = "public" /\ call.operation = "trade_asset"

IsUpload(call) ==
    /\ family \in {"consortium", "public"}
    /\ call.operation = "upload_asset"
    /\ Len(call.args) = 3

\* first user id and asset id of a three-argument call
OwnerAddress(call) == _make_address(family, call.args[1], call.args[3])
BuyerAddress(call) == _make_address(family, call.args[2], call.args[3])

IsRecord(v) == v # None /\ v.kind = "json"

\* C1: in every family, a call that ends in an exception leaves every address
\* of the store as it was before the call.
C1_FailureAtomicity == [][Failed(last') => store' = store]_vars

\* C1 witness: a public trade rejected for a wrong signer, on a ledger that
\* holds the record it named.
C1_Witness ==
    /\ family = "public"
    /\ IsTransfer(last)
    /\ last.outcome = InvalidTransaction("NotPublisher")
    /\ IsRecord(store[OwnerAddress(last)])

\* some slot of the ledger holds a record of the asset
OnLedger(st, asset_id) ==
    \E a \in DOMAIN st : IsRecord(st[a]) /\ st[a].obj.asset_id = asset_id

\* C2 as stated: once upload_asset(u, d, a) has succeeded, every later
\* upload_asset(u, d2, a) fails AlreadyExists and changes nothing, whatever
\* happened in between, in both variants.  (Stated for ledgers that still
\* hold a record of the asset, so that a refutation does not rest on a
\* record having been lost.)
C2_Original ==
    [][(/\ IsUpload(last')
        /\ <<last'.args[1], last'.args[3]>> \in uploaded
        /\ OnLedger(store, last'.args[3]))
         => (last'.outcome = InvalidTransaction("AlreadyExists") /\ store' = store)]_vars

\* C2 amended: once upload_asset(u, d, a) has succeeded, a later
\* upload_asset(u, d2, a) fails AlreadyExists and changes nothing in the
\* consortium variant always, and in the public variant as long as
\* Address(u+a) still holds a value (no trade has moved it away).
C2_UploadUniqueness ==
    [][(/\ IsUpload(last')
        /\ <<last'.args[1], last'.args[3]>> \in uploaded
        /\ (family = "public" => Truthy(store[OwnerAddress(last')])))
         => (last'.outcome = InvalidTransaction("AlreadyExists") /\ store' = store)]_vars

\* C2 witness: a consortium upload rejected as existing, for a pair uploaded
\* earlier and transferred since.
C2_Witness ==
    /\ family = "consortium"
    /\ IsUpload(last)
    /\ <<last.args[1], last.args[3]>> \in uploaded
    /\ last.outcome = InvalidTransaction("AlreadyExists")
    /\ IsRecord(store[OwnerAddress(last)])
    /\ Len(store[OwnerAddress(last)].obj.signatures) = 2

\* C3: a transfer (consortium) or trade (public) whose signer differs from
\* the publisher of the record at Address(seller+a) is rejected as
\* NotPublisher and changes no address.
C3_TransferAuthorization ==
    [][(/\ IsTransfer(last')
        /\ IsRecord(store[OwnerAddress(last')])
        /\ store[OwnerAddress(last')].obj.publisher # last'.signer)
         => (last'.outcome = InvalidTransaction("NotPublisher") /\ store' = store)]_vars

\* C3 witness: a consortium transfer named an existing record, was signed by
\* someone other than its publisher, and was rejected as NotPublisher.
C3_Witness ==
    /\ family = "consortium"
    /\ IsTransfer(last)
    /\ last.outcome = InvalidTransaction("NotPublisher")
    /\ IsRecord(store[OwnerAddress(last)])
    /\ store[OwnerAddress(last)].obj.publisher # last.signer

\* C4: a successful consortium transfer rewrites only Address(seller+a): one
\* hash SHA256(data+signer) appended, publisher = buyerID, asset_id and data
\* kept, every other address untouched.
C4_ConsortiumTransferEffect ==
    [][(family = "consortium" /\ IsTransfer(last') /\ Succeeded(last'))
         => LET address == OwnerAddress(last')
                old == store[address].obj
                new == store'[address].obj
            IN /\ IsRecord(store[address]) /\ IsRecord(store'[address])
               /\ new.signatures = Append(old.signatures, sha256(old.data \o last'.signer))
               /\ new.publisher = last'.args[2]
               /\ new.asset_id = old.asset_id
               /\ new.data = old.data
               /\ \A other \in DOMAIN store \ {address} : store'[other] = store[other]]_vars

\* C4 witness: a consortium transfer to another user has succeeded.
C4_Witness ==
    /\ family = "consortium"
    /\ IsTransfer(last)
    /\ Succeeded(last)
    /\ last.args[1] # last.args[2]
    /\ Len(store[OwnerAddress(last)].obj.signatures) >= 2

\* C5: after a successful public trade the record is at Address(buyer+a),
\* and Address(seller+a) is absent when it is another address; for every
\* seller and buyer, seller = buyer included.
C5_MoveNeverLosesRecord ==
    (family = "public" /\ IsTransfer(last) /\ Succeeded(last))
        => /\ IsRecord(store[BuyerAddress(last)])
           /\ (OwnerAddress(last) # BuyerAddress(last) => store[OwnerAddress(last)] = None)

\* C6: a consortium transfer or query naming an address that holds nothing
\* is rejected with InvalidTransaction (asset not found).
C6_MissingAssetRejected ==
    (/\ family = "consortium"
     /\ \/ IsTransfer(last)
        \/ last.operation = "query_asset" /\ Len(last.args) = 2
     /\ store[_make_address(family, last.args[1], last.args[Len(last.args)])] = None)
        => last.outcome = InvalidTransaction("NotFound")

\* C7: a consortium upload to an absent Address(userID+assetID) succeeds and
\* writes {asset_id, data, signatures = [SHA256(data+signer)], publisher =
\* signer} there; every other address is unchanged.
C7_ConsortiumUploadEffect ==
    [][(family = "consortium" /\ IsUpload(last') /\ store[OwnerAddress(last')] = None)
         => /\ last'.outcome = OK
            /\ store' = [store EXCEPT ![OwnerAddress(last')] =
                           [kind |-> "json",
                            obj |-> [asset_id |-> last'.args[3],
                                     data |-> last'.args[2],
                                     signatures |-> <<sha256(last'.args[2] \o last'.signer)>>,
                                     publisher |-> last'.signer]]]]_vars

\* C7 witness: a consortium upload has succeeded and its record is in place.
C7_Witness ==
    /\ family = "consortium"
    /\ IsUpload(last)
    /\ Succeeded(last)
    /\ IsRecord(store[OwnerAddress(last)])
    /\ store[OwnerAddress(last)].obj.publisher = last.signer

\* C8: authenticate never fails, in either variant.
C8_AuthenticateNeverFails ==
    (\/ family = "consortium" /\ last.operation = "authenticate_user"
     \/ family = "public" /\ last.operation = "authenticate")
        => Succeeded(last)

\* C9: a trace_asset whose signer is not the admin identity is rejected as
\* NotAdmin, in either variant.
C9_TraceGate ==
    (/\ family \in {"consortium", "public"}
     /\ last.operation = "trace_asset"
     /\ last.signer # ADMIN)
        => last.outcome = InvalidTransaction("NotAdmin")

\* the users, in enumeration order, whose slot for the asset holds a record
Holders(st, asset_id) ==
    SelectSeq(list_users, LAMBDA u : st[_make_address("consortium", u, asset_id)] # None)

\* C10: a consortium trace_asset by the admin succeeds and yields one entry,
\* in enumeration order, for exactly the users holding a record of the asset.
C10_TraceResult ==
    (/\ family = "consortium"
     /\ last.operation = "trace_asset"
     /\ Len(last.args) = 1
     /\ last.signer = ADMIN)
        => /\ Succeeded(last)
           /\ Len(last.outcome.value) = Len(Holders(store, last.args[1]))
           /\ \A i \in 1..Len(last.outcome.value) :
                last.outcome.value[i].user_id = Holders(store, last.args[1])[i]

\* C11: query_asset and trace_asset never change the store, whether they
\* succeed or fail, in the consortium and in the public variant.
C11_QueryTraceReadOnly ==
    [][(/\ family \in {"consortium", "public"}
        /\ last'.operation \in {"query_asset", "trace_asset"})
         => store' = store]_vars

\* C11 witness: a consortium query has succeeded on a ledger holding the
\* record it asked for, and returned the hash recomputed for the querying
\* signer.
C11_Witness ==
    /\ family = "consortium"
    /\ last.operation = "query_asset"
    /\ Len(last.args) = 2
    /\ Succeeded(last)
    /\ IsRecord(store[_make_address(family, last.args[1], last.args[2])])
    /\ last.outcome.value = <<sha256("d" \o last.signer)>>

\* ---------------------------------------------------------------------------
\* the payload decodes to an envelope that reaches the dispatch on its
\* operation name: the asset families index 'operation' and 'args' before
\* dispatching, the data-trace family reads 'action' with a default
ReachesDispatch(payload) ==
    /\ payload.kind = "json"
    /\ family \in {"consortium", "public"} => {"operation", "args"} \subseteq DOMAIN payload.obj

OperationName(payload) ==
    IF family = "trace_data" THEN dict_get(payload.obj, "action", "None")
    ELSE payload.obj.operation

SupportedOperations ==
    IF family = "consortium" THEN ConsortiumOperations
    ELSE IF family = "public" THEN PublicOperations
    ELSE TraceActions

\* C12: in each family a call whose operation (action) name is not one the
\* family dispatches on is rejected with InvalidTransaction and leaves the
\* state unchanged; the rejection is the unknown-operation one, except that the
\* data-trace handler checks for a missing fakedata before it looks at the
\* action and then reports the missing fakedata instead.
C12_UnknownOperation ==
    [][(/\ ReachesDispatch(last'.payload)
        /\ OperationName(last'.payload) \notin SupportedOperations)
         => /\ store' = store
            /\ last'.outcome =
                 IF family = "trace_data" /\ dict_get(last'.payload.obj, "fakedata", "") = ""
                 THEN InvalidTransaction("MissingFakedata")
                 ELSE InvalidTransaction("UnknownOperation")]_vars

\* an unknown operation was rejected by a consortium ledger that holds a record
C12_Witness ==
    /\ family = "consortium"
    /\ last.operation \notin ConsortiumOperations
    /\ ReachesDispatch(last.payload)
    /\ last.outcome = InvalidTransaction("UnknownOperation")
    /\ \E a \in Addresses(family) : IsRecord(store[a])

\* ---------------------------------------------------------------------------
\* the payload is not JSON, lacks a field its family requires, or carries an
\* argument list of the wrong length for its operation
Malformed(payload) ==
    \/ payload.kind # "json"
    \/ /\ family \in {"consortium", "public"}
       /\ \/ ~ ({"operation", "args"} \subseteq DOMAIN payload.obj)
          \/ /\ payload.obj.operation \in SupportedOperations
             /\ payload.obj.args \in WrongArgs(payload.obj.operation)
    \/ /\ family = "trace_data"
       /\ dict_get(payload.obj, "fakedata", "") = ""

\* C13: a malformed payload is rejected with InvalidTransaction, never another
\* error kind, and the state is unchanged.  The asset families violate it:
\* json.loads, the payload indexing and the argument unpacking raise
\* ValueError, KeyError and IndexError that apply() lets through, and
\* authenticate_user with a surplus argument is accepted and written.
C13_MalformedRejected ==
    [][Malformed(last'.payload)
         => /\ last'.outcome.exc = "InvalidTransaction"
            /\ store' = store]_vars

\* what does hold: a malformed payload that fails leaves the state unchanged,
\* and the data-trace family rejects every one with InvalidTransaction
C13_MalformedFailureKeepsState ==
    [][Malformed(last'.payload)
         => /\ Failed(last') => store' = store
            /\ family = "trace_data" => last'.outcome.exc = "InvalidTransaction"]_vars

\* a payload that is not JSON left apply() with an error other than
\* InvalidTransaction
C13_Witness ==
    /\ family = "consortium"
    /\ last.payload = NotJson
    /\ last.outcome = Raise("ValueError", "JSONDecodeError")

\* ---------------------------------------------------------------------------
\* the data-trace payload asks for this action on a fakedata that is present
\* in the payload
TraceCall(payload, action) ==
    /\ family = "trace_data"
    /\ payload.kind = "json"
    /\ dict_get(payload.obj, "action", "None") = action
    /\ dict_get(payload.obj, "fakedata", "") # ""

\* the record a store payload asks to write
TraceRecord(payload) ==
    json_dumps([fakedata |-> payload.obj.fakedata,
                metadata |-> dict_get(payload.obj, "metadata", "{}"),
                timestamp |-> dict_get(payload.obj, "timestamp", "None")])

\* C14: store fails with AlreadyExists when Address(fakedata) is present and
\* leaves the state unchanged; otherwise it writes {fakedata, metadata,
\* timestamp} at Address(fakedata) and changes no other address.
C14_Store ==
    [][TraceCall(last'.payload, "store")
         => LET address == make_address(last'.payload.obj.fakedata)
            IN IF store[address] # None
               THEN /\ last'.outcome = InvalidTransaction("AlreadyExists")
                    /\ store' = store
               ELSE /\ last'.outcome = OK
                    /\ store'[address] = TraceRecord(last'.payload)
                    /\ \A a \in Addresses(family) \ {address} : store'[a] = store[a]]_vars

\* a second record was stored next to an existing one
C14_Witness ==
    /\ TraceCall(last.payload, "store")
    /\ last.outcome = OK
    /\ store[make_address(last.payload.obj.fakedata)] = TraceRecord(last.payload)
    /\ \E a \in Addresses(family) :
          a # make_address(last.payload.obj.fakedata) /\ store[a] # None

\* C15: over any sequence of store and trace operations, trace(x) succeeds
\* exactly when an earlier store(x) succeeded, fails with NotFound otherwise,
\* and never changes the state.
C15_Trace ==
    [][TraceCall(last'.payload, "trace")
         => /\ store' = store
            /\ last'.outcome = IF <<last'.payload.obj.fakedata>> \in uploaded
                               THEN OK
                               ELSE InvalidTransaction("NotFound")]_vars

\* a trace succeeded on one fakedata while the other had never been stored
C15_Witness ==
    /\ TraceCall(last.payload, "trace")
    /\ last.outcome = OK
    /\ <<last.payload.obj.fakedata>> \in uploaded
    /\ \E x \in FakeData : <<x>> \notin uploaded /\ store[make_address(x)] = None

\* C16: in the data-trace family, once an address holds a record its value is
\* the same in every later state.
C16_TraceRecordWriteOnce ==
    [][family = "trace_data"
         => \A a \in Addresses(family) : store[a] # None => store'[a] = store[a]]_vars

\* a store with other metadata was rejected on an address that holds a record
C16_Witness ==
    /\ TraceCall(last.payload, "store")
    /\ last.outcome = InvalidTransaction("AlreadyExists")
    /\ IsRecord(store[make_address(last.payload.obj.fakedata)])
    /\ store[make_address(last.payload.obj.fakedata)] # TraceRecord(last.payload)

\* ---------------------------------------------------------------------------
\* C17: no consortium operation deletes an address: the set of present
\* addresses never shrinks, and the address of every asset whose upload
\* succeeded stays present.
C17_NoDeletion ==
    [][family = "consortium"
         => /\ \A a \in Addresses(family) : store[a] # None => store'[a] # None
            /\ \A p \in uploaded' :
                  store'[_make_address(family, p[1], p[2])] # None]_vars

\* an uploaded asset was transferred twice and its address is still present
C17_Witness ==
    /\ family = "consortium"
    /\ IsTransfer(last) /\ Succeeded(last)
    /\ \E p \in uploaded :
          /\ IsRecord(store[_make_address(family, p[1], p[2])])
          /\ Len(store[_make_address(family, p[1], p[2])].obj.signatures) = 3

\* ---------------------------------------------------------------------------
\* C18: in the consortium family an address that holds an AssetRecord keeps
\* its asset_id and data in every later state; only transfer_asset changes the
\* value there, and only publisher and signatures; authenticate_user never
\* changes an address that holds an AssetRecord.  The code violates it:
\* Address(user) hashes user_id and Address(user, asset) hashes the plain
\* concatenation user_id + asset_id, so authenticate_user("ab") overwrites the
\* record that upload_asset("a", d, "b") wrote.
C18_EntityImmutability ==
    [][family = "consortium"
         => \A a \in Addresses(family) :
              IsRecord(store[a])
                => /\ IsRecord(store'[a])
                   /\ store'[a].obj.asset_id = store[a].obj.asset_id
                   /\ store'[a].obj.data = store[a].obj.data
                   /\ store'[a] # store[a] => last'.operation = "transfer_asset"]_vars

\* authenticate_user replaced an AssetRecord by the signer's key
C18_Witness ==
    /\ family = "consortium"
    /\ last.operation = "authenticate_user" /\ Succeeded(last)
    /\ <<"a", "b">> \in uploaded
    /\ store[_make_address(family, "a", "b")] = encode(last.signer)

\* what does hold: every step other than authenticate_user respects it
C18_ImmutableExceptAuthenticate ==
    [][(family = "consortium" /\ last'.operation # "authenticate_user")
         => \A a \in Addresses(family) :
              IsRecord(store[a])
                => /\ IsRecord(store'[a])
                   /\ store'[a].obj.asset_id = store[a].obj.asset_id
                   /\ store'[a].obj.data = store[a].obj.data
                   /\ store'[a] # store[a] => last'.operation = "transfer_asset"]_vars

\* ---------------------------------------------------------------------------
\* The two asset processors side by side: the same call is submitted to a
\* consortium processor and to a public processor, each with its own state;
\* 'store' holds both states and 'last.outcome' both outcomes.  Only the
\* operations the two variants are not meant to differ in are submitted.

\* the name under which each variant dispatches the shared operation
VariantOperation(f, operation) ==
    IF operation = "authenticate"
    THEN IF f = "consortium" THEN "authenticate_user" ELSE "authenticate"
    ELSE operation

InitVariants ==
    /\ family = "variants"
    /\ store = [consortium |-> EmptyStore("consortium"),
                public |-> EmptyStore("consortium")]
    /\ last = [payload |-> None, operation |-> "none", args |-> <<>>, signer |-> "",
               outcome |-> [consortium |-> OK, public |-> OK]]
    /\ uploaded = {}
    /\ detection = NoDetection
    /\ experiment = NoExperiment
    /\ scan = NoScan

VariantsSubmit(operation, args, signer) ==
    /\ family = "variants"
    /\ \E c \in {Consortium_apply_transaction(
                     store.consortium,
                     Payload(VariantOperation("consortium", operation), args), signer)} :
          \E p \in {Public_apply_transaction(
                       store.public,
                       Payload(VariantOperation("public", operation), args), signer)} :
              /\ store' = [consortium |-> c.store, public |-> p.store]
              /\ last' = Transaction(Payload(operation, args),
                                     Call(operation, args, signer,
                                          [consortium |-> c.outcome,
                                           public |-> p.outcome]))
    /\ UNCHANGED <<family, uploaded>>
    /\ UNCHANGED offline

VariantsAuthenticate ==
    \E u \in UserIDs("consortium"), s \in Signers :
        VariantsSubmit("authenticate", <<u>>, s)

VariantsUploadAsset ==
    \E u \in UserIDs("consortium"), d \in AssetData("public"),
       a \in AssetIDs("consortium"), s \in Signers :
        VariantsSubmit("upload_asset", <<u, d, a>>, s)

VariantsQueryAsset ==
    \E u \in UserIDs("consortium"), a \in AssetIDs("consortium"), s \in Signers :
        VariantsSubmit("query_asset", <<u, a>>, s)

NextVariants ==
    \/ VariantsAuthenticate
    \/ VariantsUploadAsset
    \/ VariantsQueryAsset

SpecVariants == InitVariants /\ [][NextVariants]_vars

\* the addresses present in a state
Present(st) == {a \in DOMAIN st : st[a] # None}

\* both variants accepted the call, or both rejected it
SameVerdict(outcome) == (outcome.consortium.exc = "None") <=> (outcome.public.exc = "None")

\* C20: run side by side on any sequence of authenticate, upload_asset and
\* query_asset operations, the consortium and the public variant accept and
\* reject the same calls and keep the same set of present addresses.  The
\* code violates it on the first authenticate: the consortium handler accepts
\* and writes the user address, the public handler rejects and writes nothing
\* (the defect of C8).
C20_VariantEquivalence ==
    family = "variants"
      => /\ SameVerdict(last.outcome)
         /\ Present(store.consortium) = Present(store.public)

\* every address is absent in both states or holds an asset record in both
SameAssets(st) ==
    \A a \in DOMAIN st.consortium :
        \/ st.consortium[a] = None /\ st.public[a] = None
        \/ IsRecord(st.consortium[a]) /\ IsRecord(st.public[a])

\* what does hold: while no authenticate has written, upload_asset and
\* query_asset get the same verdict and keep the same addresses present
C20_EquivalentWithoutAuthenticate ==
    [][(/\ family = "variants"
        /\ SameAssets(store)
        /\ last'.operation # "authenticate")
         => /\ SameVerdict(last'.outcome)
            /\ SameAssets(store')
            /\ Present(store'.consortium) = Present(store'.public)]_vars

\* both variants accepted a query of an asset both hold
C20_Witness ==
    /\ family = "variants"
    /\ last.operation = "query_asset"
    /\ last.outcome.consortium.exc = "None" /\ last.outcome.public.exc = "None"
    /\ Present(store.consortium) = Present(store.public)

\* ---------------------------------------------------------------------------
\* A context that fails.  The validator's context may raise on get_state,
\* set_state or delete_state (sawtooth_sdk InternalError); State passes the
\* call through with no try, so the exception reaches the handler at the call.
ContextCalls == {"get_state", "set_state", "delete_state"}
InternalError == Raise("InternalError", "context")

\* the context calls a handler issues in a run where none of them fails
Consortium_context_calls(st, operation, args, signer) ==
    LET done == Consortium_apply(st, operation, args, signer).outcome.exc = "None"
    IN IF operation = "authenticate_user"
       THEN IF Len(args) = 0 THEN {} ELSE {"set_state"}
       ELSE IF operation \in {"upload_asset", "transfer_asset"}
       THEN IF Len(args) # 3 THEN {}
            ELSE IF done THEN {"get_state", "set_state"} ELSE {"get_state"}
       ELSE IF operation = "query_asset"
       THEN IF Len(args) # 2 THEN {} ELSE {"get_state"}
       ELSE IF operation = "trace_asset"
       THEN IF ~_is_admin(signer) \/ Len(args) = 0 THEN {} ELSE {"get_state"}
       ELSE {}

Public_context_calls(st, operation, args, signer) ==
    LET done == Public_apply(st, operation, args, signer).outcome.exc = "None"
    IN IF operation \in {"authenticate", "trace_asset"}
       THEN IF Len(args) = 0 THEN {} ELSE {"get_state"}
       ELSE IF operation = "upload_asset"
       THEN IF Len(args) # 3 THEN {}
            ELSE IF done THEN {"get_state", "set_state"} ELSE {"get_state"}
       ELSE IF operation = "trade_asset"
       THEN IF Len(args) # 3 THEN {}
            ELSE IF done THEN {"get_state", "set_state", "delete_state"}
            ELSE {"get_state"}
       ELSE IF operation = "query_asset"
       THEN IF Len(args) # 2 THEN {} ELSE {"get_state"}
       ELSE {}

TraceData_context_calls(st, payload) ==
    IF payload.fakedata = "" THEN {}
    ELSE IF payload.action = "store" /\ TraceData_apply(st, payload).outcome = OK
    THEN {"get_state", "set_state"}
    ELSE {"get_state"}

\* the state a handler has written when the named context call raises: only
\* the public trade issues a write (the set at the buyer's address) before
\* another context call (the delete at the seller's)
WrittenBefore(f, st, operation, args, signer, failing) ==
    IF f = "public" /\ operation = "trade_asset" /\ failing = "delete_state"
    THEN LET asset_entry == json_loads(State_get(st, _make_address(f, args[1], args[3])))
         IN State_set(st, _make_address(f, args[2], args[3]),
                      json_dumps([asset_entry EXCEPT !.publisher = signer]))
    ELSE st

\* apply() on a context whose call 'failing' raises; 'raised' tells whether
\* the handler reached that call.  The asset handlers have no try around the
\* handler body, so the exception leaves apply() as it is.
Consortium_apply_failing(st, operation, args, signer, failing) ==
    IF failing \in Consortium_context_calls(st, operation, args, signer)
    THEN [store |-> WrittenBefore("consortium", st, operation, args, signer, failing),
          outcome |-> InternalError, raised |-> TRUE]
    ELSE [store |-> Consortium_apply(st, operation, args, signer).store,
          outcome |-> Consortium_apply(st, operation, args, signer).outcome,
          raised |-> FALSE]

Public_apply_failing(st, operation, args, signer, failing) ==
    IF failing \in Public_context_calls(st, operation, args, signer)
    THEN [store |-> WrittenBefore("public", st, operation, args, signer, failing),
          outcome |-> InternalError, raised |-> TRUE]
    ELSE [store |-> Public_apply(st, operation, args, signer).store,
          outcome |-> Public_apply(st, operation, args, signer).outcome,
          raised |-> FALSE]

\* the data-trace apply() has its whole body in a try whose 'except Exception'
\* raises InvalidTransaction in place of whatever was caught
TraceData_apply_failing(st, payload, failing) ==
    IF failing \in TraceData_context_calls(st, payload)
    THEN [store |-> st, outcome |-> InvalidTransaction("ErrorProcessingTransaction"),
          raised |-> TRUE]
    ELSE [store |-> TraceData_apply(st, payload).store,
          outcome |-> TraceData_apply(st, payload).outcome,
          raised |-> FALSE]

\* the arguments submitted for each operation on the failing context
FailingArgs(f, operation) ==
    LET other == IF f = "consortium" THEN "ab" ELSE "block_1"
    IN IF operation \in {"authenticate_user", "authenticate"} THEN <<"a">>
       ELSE IF operation = "upload_asset" THEN <<"a", "d", "b">>
       ELSE IF operation \in {"transfer_asset", "trade_asset"} THEN <<"a", other, "b">>
       ELSE IF operation = "query_asset" THEN <<"a", "b">>
       ELSE <<"b">>

InitFailing ==
    /\ family \in Families
    /\ store = EmptyStore(family)
    /\ last = [payload |-> None, operation |-> "none", args |-> <<>>, signer |-> "",
               outcome |-> OK, failing |-> "none", raised |-> FALSE]
    /\ uploaded = {}
    /\ detection = NoDetection
    /\ experiment = NoExperiment
    /\ scan = NoScan

\* what the processor last applied, with the context call that was set to fail
FailingTransaction(call, failing, raised) ==
    [payload |-> None, operation |-> call.operation, args |-> call.args,
     signer |-> call.signer, outcome |-> call.outcome,
     failing |-> failing, raised |-> raised]

ConsortiumFailingContext ==
    /\ family = "consortium"
    /\ \E operation \in ConsortiumOperations, signer \in {ADMIN, "a"},
          failing \in ContextCalls \cup {"none"} :
          \E r \in {Consortium_apply_failing(store, operation,
                                              FailingArgs(family, operation),
                                              signer, failing)} :
              /\ SigsBounded(r.store)
              /\ store' = r.store
              /\ last' = FailingTransaction(
                            Call(operation, FailingArgs(family, operation), signer,
                                 r.outcome), failing, r.raised)
    /\ UNCHANGED <<family, uploaded>>
    /\ UNCHANGED offline

PublicFailingContext ==
    /\ family = "public"
    /\ \E operation \in PublicOperations, signer \in {ADMIN, "a"},
          failing \in ContextCalls \cup {"none"} :
          \E r \in {Public_apply_failing(store, operation,
                                          FailingArgs(family, operation),
                                          signer, failing)} :
              /\ store' = r.store
              /\ last' = FailingTransaction(
                            Call(operation, FailingArgs(family, operation), signer,
                                 r.outcome), failing, r.raised)
    /\ UNCHANGED <<family, uploaded>>
    /\ UNCHANGED offline

TraceDataFailingContext ==
    /\ family = "trace_data"
    /\ \E action \in TraceActions, fakedata \in FakeData, metadata \in MetaData,
          failing \in ContextCalls \cup {"none"} :
          \E r \in {TraceData_apply_failing(
                        store, [action |-> action, fakedata |-> fakedata,
                                metadata |-> metadata, timestamp |-> "t1"], failing)} :
              /\ store' = r.store
              /\ last' = FailingTransaction(
                            Call(action, <<fakedata, metadata, "t1">>, "a", r.outcome),
                            failing, r.raised)
    /\ UNCHANGED <<family, uploaded>>
    /\ UNCHANGED offline

NextFailing ==
    \/ ConsortiumFailingContext
    \/ PublicFailingContext
    \/ TraceDataFailingContext

SpecFailing == InitFailing /\ [][NextFailing]_vars

\* C21: when a context call fails during apply(), that same error leaves
\* apply() unchanged in kind, in every family.  The data-trace handler
\* violates it: its 'except Exception' replaces the context's error by
\* InvalidTransaction.
C21_ContextErrorVerbatim ==
    [][last'.raised => last'.outcome = InternalError]_vars

\* what does hold: the consortium and the public handler surface it unchanged
C21_AssetFamiliesVerbatim ==
    [][(last'.raised /\ family \in {"consortium", "public"})
         => last'.outcome = InternalError]_vars

\* a set_state that failed in a data-trace store left apply() as
\* InvalidTransaction
C21_Witness ==
    /\ family = "trace_data"
    /\ last.operation = "store" /\ last.failing = "set_state" /\ last.raised
    /\ last.outcome.exc = "InvalidTransaction"
    /\ \E a \in Addresses(family) : store[a] # None

-----------------------------------------------------------------------------
(* fake_data_detector.py: FakeDataDetector *)

\* longest command list drawn as an input
MaxCmds == 4

Commands == {"a", "b"}

\* floats are exact fractions <<numerator, denominator>> in lowest terms,
\* denominator positive; math.log is the only inexact step (see math_log)
RECURSIVE GCD(_, _)
GCD(a, b) == IF b = 0 THEN a ELSE GCD(b, a % b)
Abs(x) == IF x < 0 THEN -x ELSE x
Rat(n, d) == <<n \div GCD(Abs(n), d), d \div GCD(Abs(n), d)>>
Zero == <<0, 1>>
One == <<1, 1>>
RatAdd(x, y) == Rat(x[1] * y[2] + y[1] * x[2], x[2] * y[2])
RatSub(x, y) == Rat(x[1] * y[2] - y[1] * x[2], x[2] * y[2])
RatDiv(x, k) == Rat(x[1], x[2] * k)
\* comparisons cross-multiply by the denominators less their common factor
RatLess(x, y) == x[1] * (y[2] \div GCD(x[2], y[2])) < y[1] * (x[2] \div GCD(x[2], y[2]))
RatLeq(x, y) == x[1] * (y[2] \div GCD(x[2], y[2])) <= y[1] * (x[2] \div GCD(x[2], y[2]))

\* math.log at the integers the bounded inputs produce, to four decimals:
\* math_log(k) = round(ln(k) * LogScale)
LogScale == 10000
log_table ==
    <<0, 6931, 10986, 13863, 16094, 17918, 19459, 20794, 21972, 23026, 23979, 24849,
      25649, 26391, 27081, 27726, 28332, 28904, 29444, 29957, 30445, 30910, 31355, 31781,
      32189, 32581, 32958, 33322, 33673, 34012, 34340, 34657, 34965, 35264, 35553, 35835,
      36109, 36376, 36636, 36889, 37136, 37377, 37612, 37842, 38067, 38286, 38501, 38712,
      38918, 39120, 39318, 39512, 39703, 39890, 40073, 40254, 40431, 40604, 40775, 40943,
      41109, 41271, 41431, 41589, 41744, 41897, 42047, 42195, 42341, 42485, 42627, 42767>>
math_log(k) == log_table[k]

\* math.log(x) of the float x = n / d: the log of the fraction in lowest terms
log_of_ratio(n, d) == math_log(n \div GCD(n, d)) - math_log(d \div GCD(n, d))

RECURSIVE Sum(_, _)
Sum(f, S) == IF S = {} THEN 0
             ELSE LET x == CHOOSE x \in S : TRUE IN f[x] + Sum(f, S \ {x})

\* collections.Counter of a list: element -> number of occurrences
Keys(seq) == {seq[i] : i \in 1..Len(seq)}
Counter(seq) == [k \in Keys(seq) |-> Cardinality({i \in 1..Len(seq) : seq[i] = k})]

\* dataset.get('commands', [])
commands_of(dataset) == dict_get(dataset, "commands", <<>>)

_extract_statistical_features(dataset) ==
    [command_count |-> Len(commands_of(dataset)),
     unique_commands |-> Cardinality(Keys(commands_of(dataset))),
     command_frequency |-> Counter(commands_of(dataset))]

\* a similarity that divides by the smaller value
_calculate_similarity_by_min(val1, val2) ==
    IF val1 = 0 /\ val2 = 0 THEN One
    ELSE IF val1 = 0 \/ val2 = 0 THEN Zero
    ELSE LET diff == Abs(val1 - val2)
             min_val == IF val1 <= val2 THEN val1 ELSE val2
         IN RatSub(One, Rat(diff, min_val))

_calculate_similarity(val1, val2) ==
    IF val1 = 0 /\ val2 = 0 THEN One
    ELSE IF val1 = 0 \/ val2 = 0 THEN Zero
    ELSE LET diff == Abs(val1 - val2)
             max_val == IF val1 >= val2 THEN val1 ELSE val2
         IN RatSub(One, Rat(diff, max_val))

\* sum of pi * log(pi / mi) over the commands, for p = counts / total and
\* m = (p + q) / 2, in units of 1 / (total_p * total_q * LogScale):
\* pi / mi = 2 * p[c] * total_q / (p[c] * total_q + q[c] * total_p)
_kl_divergence(p, total_p, q, total_q) ==
    Sum([c \in DOMAIN p |->
           IF p[c] > 0
           THEN total_q * p[c] * log_of_ratio(2 * p[c] * total_q,
                                              p[c] * total_q + q[c] * total_p)
           ELSE 0],
        DOMAIN p)

_jensen_shannon_divergence(p, total_p, q, total_q) ==
    Rat(_kl_divergence(p, total_p, q, total_q) + _kl_divergence(q, total_q, p, total_p),
        2 * total_p * total_q * LogScale)

\* a similarity that returns the divergence itself
_calculate_distribution_similarity_is_jsd(freq1, freq2) ==
    LET all_commands == DOMAIN freq1 \cup DOMAIN freq2
        p1 == [cmd \in all_commands |-> dict_get(freq1, cmd, 0)]
        p2 == [cmd \in all_commands |-> dict_get(freq2, cmd, 0)]
        total1 == Sum(p1, all_commands)
        total2 == Sum(p2, all_commands)
    IN IF total1 = 0 \/ total2 = 0 THEN Zero
       ELSE _jensen_shannon_divergence(p1, total1, p2, total2)

_calculate_distribution_similarity(freq1, freq2) ==
    LET all_commands == DOMAIN freq1 \cup DOMAIN freq2
        p1 == [cmd \in all_commands |-> dict_get(freq1, cmd, 0)]
        p2 == [cmd \in all_commands |-> dict_get(freq2, cmd, 0)]
        total1 == Sum(p1, all_commands)
        total2 == Sum(p2, all_commands)
    IN IF total1 = 0 \/ total2 = 0 THEN Zero
       ELSE RatSub(One, _jensen_shannon_divergence(p1, total1, p2, total2))

statistical_detection(original, test) ==
    LET original_stats == _extract_statistical_features(original)
        test_stats == _extract_statistical_features(test)
        count_similarity == _calculate_similarity(original_stats.command_count,
                                                  test_stats.command_count)
        unique_similarity == _calculate_similarity(original_stats.unique_commands,
                                                   test_stats.unique_commands)
        distribution_similarity ==
            _calculate_distribution_similarity(original_stats.command_frequency,
                                               test_stats.command_frequency)
        overall_similarity ==
            RatDiv(RatAdd(RatAdd(count_similarity, unique_similarity),
                          distribution_similarity), 3)
        is_fake == RatLess(overall_similarity, <<7, 10>>)
        confidence == IF is_fake THEN RatSub(One, overall_similarity)
                      ELSE overall_similarity
    IN [is_fake |-> is_fake,
        confidence |-> confidence,
        method |-> "statistical",
        similarity_scores |->
            [count_similarity |-> count_similarity,
             unique_similarity |-> unique_similarity,
             distribution_similarity |-> distribution_similarity,
             overall_similarity |-> overall_similarity]]

\* the sliding windows of pattern_length tokens, in order of occurrence
pattern_length == 3
_extract_patterns(commands) ==
    IF Len(commands) < pattern_length THEN <<>>
    ELSE [i \in 1..(Len(commands) - pattern_length + 1) |->
            SubSeq(commands, i, i + pattern_length - 1)]

\* Counter(seq).most_common(n) as a set of (element, count) pairs: the n
\* elements of highest count, equal counts in order of first occurrence
FirstIndex(seq, k) == CHOOSE i \in 1..Len(seq) :
                          seq[i] = k /\ \A j \in 1..(i - 1) : seq[j] # k
Before(seq, k1, k2) ==
    \/ Counter(seq)[k1] > Counter(seq)[k2]
    \/ Counter(seq)[k1] = Counter(seq)[k2] /\ FirstIndex(seq, k1) < FirstIndex(seq, k2)
most_common(seq, n) ==
    {<<k, Counter(seq)[k]>> :
        k \in {k \in Keys(seq) :
                 Cardinality({k1 \in Keys(seq) : Before(seq, k1, k)}) < n}}

top_patterns == 10
_calculate_pattern_overlap(patterns1, patterns2) ==
    LET top1 == most_common(patterns1, top_patterns)
        top2 == most_common(patterns2, top_patterns)
        intersection == top1 \cap top2
        union == top1 \cup top2
    IN IF union # {} THEN Rat(Cardinality(intersection), Cardinality(union)) ELSE Zero

pattern_based_detection(original, test) ==
    LET original_patterns == _extract_patterns(commands_of(original))
        test_patterns == _extract_patterns(commands_of(test))
        pattern_overlap == _calculate_pattern_overlap(original_patterns, test_patterns)
        is_fake == RatLess(pattern_overlap, <<1, 2>>)
        confidence == IF is_fake THEN RatSub(One, pattern_overlap) ELSE pattern_overlap
    IN [is_fake |-> is_fake,
        confidence |-> confidence,
        method |-> "pattern_based",
        pattern_overlap |-> pattern_overlap]

_calculate_frequency_distance(freq1, freq2) ==
    LET all_commands == DOMAIN freq1 \cup DOMAIN freq2
    IN Sum([cmd \in all_commands |->
              Abs(dict_get(freq1, cmd, 0) - dict_get(freq2, cmd, 0))],
           all_commands)

\* a frequency method that normalises by the number of tokens
frequency_based_detection_by_tokens(original, test) ==
    LET original_freq == Counter(commands_of(original))
        test_freq == Counter(commands_of(test))
        freq_distance == _calculate_frequency_distance(original_freq, test_freq)
        max_distance == Len(commands_of(original)) + Len(commands_of(test))
        normalized_distance == IF max_distance > 0 THEN Rat(freq_distance, max_distance)
                               ELSE Zero
        is_fake == RatLess(<<3, 5>>, normalized_distance)
        confidence == IF is_fake THEN normalized_distance
                      ELSE RatSub(One, normalized_distance)
    IN [is_fake |-> is_fake,
        confidence |-> confidence,
        method |-> "frequency_based",
        frequency_distance |-> freq_distance,
        normalized_distance |-> normalized_distance]

frequency_based_detection(original, test) ==
    LET original_freq == Counter(commands_of(original))
        test_freq == Counter(commands_of(test))
        freq_distance == _calculate_frequency_distance(original_freq, test_freq)
        max_distance == Cardinality(DOMAIN original_freq) + Cardinality(DOMAIN test_freq)
        normalized_distance == IF max_distance > 0 THEN Rat(freq_distance, max_distance)
                               ELSE Zero
        is_fake == RatLess(<<3, 5>>, normalized_distance)
        confidence == IF is_fake THEN normalized_distance
                      ELSE RatSub(One, normalized_distance)
    IN [is_fake |-> is_fake,
        confidence |-> confidence,
        method |-> "frequency_based",
        frequency_distance |-> freq_distance,
        normalized_distance |-> normalized_distance]

DetectionMethods == {"statistical", "pattern_based", "frequency_based"}

\* a dispatch that falls back to the default method
detect_fake_data_defaults(original_dataset, test_data, detection_method) ==
    IF detection_method = "pattern_based"
    THEN OKWith(pattern_based_detection(original_dataset, test_data))
    ELSE IF detection_method = "frequency_based"
    THEN OKWith(frequency_based_detection(original_dataset, test_data))
    ELSE OKWith(statistical_detection(original_dataset, test_data))

detect_fake_data(original_dataset, test_data, detection_method) ==
    IF detection_method = "statistical"
    THEN OKWith(statistical_detection(original_dataset, test_data))
    ELSE IF detection_method = "pattern_based"
    THEN OKWith(pattern_based_detection(original_dataset, test_data))
    ELSE IF detection_method = "frequency_based"
    THEN OKWith(frequency_based_detection(original_dataset, test_data))
    ELSE Raise("ValueError", "UnsupportedMethod")

\* data_preprocessor.py: the command lists with the commands at the chosen
\* indices suffixed "_modified"
Modified(commands, indices) ==
    [i \in 1..Len(commands) |->
        IF i \in indices THEN commands[i] \o "_modified" ELSE commands[i]]

\* the datasets a detection is called with
RECURSIVE Lists(_, _)
Lists(S, n) == IF n = 0 THEN {<<>>}
               ELSE Lists(S, n - 1)
                    \cup {Append(l, x) : l \in {m \in Lists(S, n - 1) : Len(m) = n - 1},
                                         x \in S}
NoCommands == [type |-> "modified"]
Originals == {[commands |-> l] : l \in Lists(Commands, MaxCmds)} \cup {NoCommands}
Candidates(original) ==
    Originals
    \cup {[commands |-> Modified(commands_of(original), indices)] :
            indices \in SUBSET (1..Len(commands_of(original)))}

InitDetector ==
    /\ family = "offline"
    /\ store = <<>>
    /\ last = [operation |-> "none"]
    /\ uploaded = {}
    /\ experiment = NoExperiment
    /\ scan = NoScan
    /\ \E original \in Originals :
          \E test \in Candidates(original) :
              detection = [original |-> original, test |-> test,
                           method |-> "none", outcome |-> OK]

Detect(detection_method) ==
    /\ detection.method = "none"
    /\ detection' = [detection EXCEPT
                       !.method = detection_method,
                       !.outcome = detect_fake_data(detection.original, detection.test,
                                                    detection_method)]
    /\ UNCHANGED <<family, store, last, uploaded, experiment, scan>>

DetectStatistical == Detect("statistical")
DetectPatternBased == Detect("pattern_based")
DetectFrequencyBased == Detect("frequency_based")
DetectUnsupported == Detect("neural")

NextDetector ==
    \/ DetectStatistical
    \/ DetectPatternBased
    \/ DetectFrequencyBased
    \/ DetectUnsupported

SpecDetector == InitDetector /\ [][NextDetector]_vars

-----------------------------------------------------------------------------
(* Properties of the detector *)

Verdict == detection.outcome.value
Detected(method) == detection.method = method /\ detection.outcome.exc = "None"

\* C23: detect_fake_data fails with the unsupported-method error exactly when
\* the method name is not statistical, pattern_based or frequency_based; for
\* each of the three it returns a verdict for every pair of inputs, empty
\* command lists and datasets without a commands field included.
C23_MethodSelection ==
    detection.method # "none"
      => /\ (detection.outcome = Raise("ValueError", "UnsupportedMethod"))
              <=> detection.method \notin DetectionMethods
         /\ detection.method \in DetectionMethods
              => /\ detection.outcome.exc = "None"
                 /\ Verdict.method = detection.method
                 /\ Verdict.is_fake \in BOOLEAN
                 /\ Verdict.confidence[2] > 0

\* the statistical method returned a verdict for a dataset with no commands
\* field against an empty command list
C23_Witness ==
    /\ Detected("statistical")
    /\ detection.original = NoCommands
    /\ detection.test = [commands |-> <<>>]
    /\ Verdict.is_fake

\* C24: for identical original and candidate command sequences, the empty
\* one included, the statistical method returns overall_similarity = 1.0 and
\* is_fake = false.  The code violates it for two empty sequences: the
\* distribution similarity is 0.0 when a side has no commands, so the overall
\* similarity is 2/3 and the verdict is fake.
C24_IdenticalIsGenuine ==
    (Detected("statistical")
       /\ commands_of(detection.original) = commands_of(detection.test))
      => /\ Verdict.similarity_scores.overall_similarity = One
         /\ ~Verdict.is_fake

\* what does hold: identical sequences that are not empty
C24_IdenticalNonEmptyIsGenuine ==
    (Detected("statistical")
       /\ commands_of(detection.original) = commands_of(detection.test)
       /\ commands_of(detection.original) # <<>>)
      => /\ Verdict.similarity_scores.overall_similarity = One
         /\ ~Verdict.is_fake
         /\ Verdict.confidence = One

C24_Witness ==
    /\ Detected("statistical")
    /\ commands_of(detection.original) = <<>>
    /\ commands_of(detection.test) = <<>>
    /\ Verdict.similarity_scores.overall_similarity = <<2, 3>>
    /\ Verdict.is_fake

\* C25: for each of the three methods and every pair of inputs, the returned
\* confidence lies in [0, 1].  The frequency-based method violates it: the
\* distance counts occurrences and is divided by the number of distinct
\* commands, so the normalized distance, and with it the confidence, exceeds 1.
C25_ConfidenceRange ==
    (detection.method \in DetectionMethods /\ detection.outcome.exc = "None")
      => RatLeq(Zero, Verdict.confidence) /\ RatLeq(Verdict.confidence, One)

\* what does hold: the statistical and the pattern-based method
C25_ConfidenceRangeOtherMethods ==
    (Detected("statistical") \/ Detected("pattern_based"))
      => RatLeq(Zero, Verdict.confidence) /\ RatLeq(Verdict.confidence, One)

C25_Witness ==
    /\ Detected("frequency_based")
    /\ commands_of(detection.original) = <<"a", "a", "a">>
    /\ commands_of(detection.test) = <<>>
    /\ Verdict.confidence = <<3, 1>>

\* the n-grams of a command list and the ten most frequent of them, as
\* n-grams without their counts
NGrams(commands) == Keys(_extract_patterns(commands))
TopNGrams(commands) ==
    {pair[1] : pair \in most_common(_extract_patterns(commands), top_patterns)}
Jaccard(A, B) == IF A \cup B = {} THEN Zero
                 ELSE Rat(Cardinality(A \cap B), Cardinality(A \cup B))

\* C26: pattern_overlap is |A n B| / |A u B| for the sets A, B of each side's
\* ten most frequent 3-token n-grams, compared as n-grams regardless of their
\* counts (0.0 when the union is empty); is_fake exactly when overlap < 0.5;
\* confidence is 1 - overlap if fake, else overlap.  The code violates it: it
\* intersects the (n-gram, count) pairs most_common returns, so an n-gram
\* both sides have with different counts is not in the intersection.
C26_PatternOverlap ==
    Detected("pattern_based")
      => LET overlap == Jaccard(TopNGrams(commands_of(detection.original)),
                                TopNGrams(commands_of(detection.test)))
         IN /\ Verdict.pattern_overlap = overlap
            /\ Verdict.is_fake <=> RatLess(overlap, <<1, 2>>)
            /\ Verdict.confidence = IF Verdict.is_fake THEN RatSub(One, overlap)
                                    ELSE overlap

\* what does hold: the verdict and the confidence follow from the overlap the
\* code computed, and that overlap is the claimed one whenever every shared
\* n-gram occurs equally often on both sides
C26_VerdictFollowsOverlap ==
    Detected("pattern_based")
      => /\ Verdict.is_fake <=> RatLess(Verdict.pattern_overlap, <<1, 2>>)
         /\ Verdict.confidence = IF Verdict.is_fake
                                 THEN RatSub(One, Verdict.pattern_overlap)
                                 ELSE Verdict.pattern_overlap
         /\ (\A g \in NGrams(commands_of(detection.original))
                      \cap NGrams(commands_of(detection.test)) :
                 Counter(_extract_patterns(commands_of(detection.original)))[g]
                   = Counter(_extract_patterns(commands_of(detection.test)))[g])
              => Verdict.pattern_overlap
                   = Jaccard(TopNGrams(commands_of(detection.original)),
                             TopNGrams(commands_of(detection.test)))

C26_Witness ==
    /\ Detected("pattern_based")
    /\ commands_of(detection.original) = <<"a", "a", "a">>
    /\ commands_of(detection.test) = <<"a", "a", "a", "a">>
    /\ Verdict.pattern_overlap = Zero
    /\ Verdict.is_fake

\* occurrences of a token in a command list, and the tokens observed
Occurrences(commands, t) == Cardinality({i \in 1..Len(commands) : commands[i] = t})
Observed == Keys(commands_of(detection.original)) \cup Keys(commands_of(detection.test))

\* C27: distance is the sum over the observed tokens of |countA(t) -
\* countB(t)|; normalized = distance / (|distinctA| + |distinctB|), 0 when
\* the denominator is 0; is_fake exactly when normalized > 0.6; confidence is
\* normalized if fake, else 1 - normalized.
C27_FrequencyMethod ==
    Detected("frequency_based")
      => LET A == commands_of(detection.original)
             B == commands_of(detection.test)
             distance == Sum([t \in Observed |->
                                Abs(Occurrences(A, t) - Occurrences(B, t))], Observed)
             denominator == Cardinality(Keys(A)) + Cardinality(Keys(B))
             normalized == Verdict.normalized_distance
         IN /\ Verdict.frequency_distance = distance
            /\ denominator = 0 => normalized = Zero
            /\ denominator > 0
                 => normalized[1] * denominator = distance * normalized[2]
            /\ Verdict.is_fake <=> 10 * normalized[1] > 6 * normalized[2]
            /\ Verdict.confidence = IF Verdict.is_fake THEN normalized
                                    ELSE RatSub(One, normalized)

\* a fake verdict and a genuine one each occur; this is the fake one, with a
\* normalized distance above 0.6 and below 1
C27_Witness ==
    /\ Detected("frequency_based")
    /\ Verdict.is_fake
    /\ RatLess(Verdict.normalized_distance, One)
    /\ Verdict.frequency_distance = 3

\* C28: _calculate_similarity(a, b) = 1 - |a - b| / max(a, b), 1.0 when both
\* are zero and 0.0 when exactly one is; it is symmetric, lies in [0, 1], and
\* is 1.0 exactly when a = b.  Checked on the command counts and on the
\* distinct-command counts of every pair of inputs.
SimilarityLaw(a, b, s) ==
    /\ (a = 0 /\ b = 0) => s = One
    /\ ((a = 0) # (b = 0)) => s = Zero
    /\ (a > 0 /\ b > 0)
         => s[1] * (IF a >= b THEN a ELSE b)
              = ((IF a >= b THEN a ELSE b) - Abs(a - b)) * s[2]
    /\ s = _calculate_similarity(b, a)
    /\ RatLeq(Zero, s) /\ RatLeq(s, One)
    /\ (s = One) <=> (a = b)

C28_CountSimilarity ==
    Detected("statistical")
      => /\ SimilarityLaw(Len(commands_of(detection.original)),
                          Len(commands_of(detection.test)),
                          Verdict.similarity_scores.count_similarity)
         /\ SimilarityLaw(Cardinality(Keys(commands_of(detection.original))),
                          Cardinality(Keys(commands_of(detection.test))),
                          Verdict.similarity_scores.unique_similarity)

\* counts 4 and 3 give 3/4
C28_Witness ==
    /\ Detected("statistical")
    /\ Len(commands_of(detection.original)) = 4
    /\ Len(commands_of(detection.test)) = 3
    /\ Verdict.similarity_scores.count_similarity = <<3, 4>>

\* the positions of a candidate that are not yet modified
Unmodified(commands) == {i \in 1..Len(commands) : commands[i] \in Commands}
distribution_similarity(original, candidate) ==
    _calculate_distribution_similarity(Counter(commands_of(original)),
                                       Counter(commands_of(candidate)))

-----------------------------------------------------------------------------
(* The experiment runner's detection phase: phase3_fake_data_detection
   generates one fake candidate per selected dataset, asks the detector for a
   statistical verdict and submits a mark_fake transaction for a fake one *)

MaxDatasets == 2
MaxSampleCmds == 2
DatasetIds == [i \in 1..(MaxDatasets + 1) |-> <<"User", i>>]

Min(a, b) == IF a <= b THEN a ELSE b
Max(a, b) == IF a >= b THEN a ELSE b

\* the index sets random.sample(range(len(commands)), k) can return
random_sample(n, k) == {indices \in SUBSET (1..n) : Cardinality(indices) = k}

\* The fields 'type', 'commands' and 'modification_rate' of the generated
\* record; 'modifications' (a list of the replaced tokens) is read by nobody.
\* The division by len(commands) raises for an empty command list.
_generate_modified_commands(commands, indices) ==
    IF Len(commands) = 0 THEN Raise("ZeroDivisionError", "modification_rate")
    ELSE OKWith([type |-> "modified",
                 commands |-> Modified(commands, indices),
                 modification_rate |-> Rat(Cardinality(indices), Len(commands))])

num_to_modify(commands) == Max(1, Len(commands) \div 5)

\* generate_fake_data(original_dataset, 'modified'), the only fake type the
\* detection phase asks for; indices is the outcome of random.sample
generate_fake_data(original_dataset, indices) ==
    IF "commands" \notin DOMAIN original_dataset THEN Raise("KeyError", "commands")
    ELSE _generate_modified_commands(original_dataset.commands, indices)

\* the payload mark_fake_data hands to _send_transaction
mark_fake_data(fake_id, original_dataset, fake_content, detection_method, confidence) ==
    [action |-> "mark_fake",
     fake_id |-> fake_id,
     original_dataset |-> original_dataset,
     fake_content |-> fake_content,
     detection_method |-> detection_method,
     confidence |-> confidence]

\* _send_transaction returns the REST API's answer for status 200 or 202 and
\* raises otherwise
Responses == {"returned", "raised"}

ClientCall(name, dataset_id, value, returned) ==
    [call |-> name, dataset |-> dataset_id, value |-> value, returned |-> returned]

Logged(exp, dataset_id, calls) ==
    [exp EXCEPT !.calls = exp.calls \o calls,
                !.errors = exp.errors \cup {dataset_id},
                !.next = exp.next + 1]

\* a loop body that submits mark_fake whatever the verdict says
phase3_iteration_marks_always(exp, dataset_id, dataset_info, indices, now, response) ==
    LET generated == generate_fake_data(dataset_info, indices)
        fake_data == generated.value
        detected == detect_fake_data(dataset_info, fake_data, "statistical")
        detection_result == detected.value
        detect_call == ClientCall("detect_fake_data", dataset_id, detection_result, TRUE)
        payload == mark_fake_data(<<"fake", dataset_id, now>>, dataset_id,
                                  SubSeq(fake_data.commands, 1,
                                         Min(10, Len(fake_data.commands))),
                                  detection_result.method,
                                  detection_result.confidence)
        submission == ClientCall("mark_fake_data", dataset_id, payload, response = "returned")
        entry == [original_dataset |-> dataset_id,
                  fake_data_type |-> fake_data.type,
                  detection_result |-> detection_result,
                  blockchain_recorded |-> detection_result.is_fake]
    IN IF generated.exc # "None" THEN Logged(exp, dataset_id, <<>>)
       ELSE IF detected.exc # "None" THEN Logged(exp, dataset_id, <<>>)
       ELSE IF response = "raised"
            THEN Logged(exp, dataset_id, <<detect_call, submission>>)
            ELSE [exp EXCEPT
                    !.calls = exp.calls \o <<detect_call, submission>>,
                    !.fake_detection_results = Append(exp.fake_detection_results, entry),
                    !.next = exp.next + 1]

\* One pass of the for loop's body over (dataset_id, dataset_info): the calls
\* it makes in order, the entry it appends, and the except branch, which only
\* logs. now is int(time.time()); response is the outcome of the submission.
phase3_iteration(exp, dataset_id, dataset_info, indices, now, response) ==
    LET generated == generate_fake_data(dataset_info, indices)
        fake_data == generated.value
        detected == detect_fake_data(dataset_info, fake_data, "statistical")
        detection_result == detected.value
        detect_call == ClientCall("detect_fake_data", dataset_id, detection_result, TRUE)
        payload == mark_fake_data(<<"fake", dataset_id, now>>, dataset_id,
                                  SubSeq(fake_data.commands, 1,
                                         Min(10, Len(fake_data.commands))),
                                  detection_result.method,
                                  detection_result.confidence)
        submission == ClientCall("mark_fake_data", dataset_id, payload, response = "returned")
        entry == [original_dataset |-> dataset_id,
                  fake_data_type |-> fake_data.type,
                  detection_result |-> detection_result,
                  blockchain_recorded |-> detection_result.is_fake]
    IN IF generated.exc # "None" THEN Logged(exp, dataset_id, <<>>)
       ELSE IF detected.exc # "None" THEN Logged(exp, dataset_id, <<>>)
       ELSE IF detection_result.is_fake /\ response = "raised"
            THEN Logged(exp, dataset_id, <<detect_call, submission>>)
            ELSE [exp EXCEPT
                    !.calls = exp.calls \o (IF detection_result.is_fake
                                            THEN <<detect_call, submission>>
                                            ELSE <<detect_call>>),
                    !.fake_detection_results = Append(exp.fake_detection_results, entry),
                    !.next = exp.next + 1]

\* the dataset records the phase is run over: what process_datasets builds
\* from a file of commands, and a record without commands, which a
\* processed_datasets.json can hold
SampleDatasets == {[commands |-> l] : l \in Lists(Commands, MaxSampleCmds)}
                  \cup {NoCommands}
Clock == {1}

InitExperiment ==
    /\ family = "offline"
    /\ store = <<>>
    /\ last = [operation |-> "none"]
    /\ uploaded = {}
    /\ detection = NoDetection
    /\ scan = NoScan
    /\ \E n \in 0..MaxDatasets :
          \E datasets \in [1..n -> SampleDatasets] :
              \E num_fake_samples \in 1..MaxDatasets :
                  experiment = [pc |-> "phase3",
                                selected_datasets |->
                                    SubSeq(datasets, 1, Min(num_fake_samples, n)),
                                next |-> 1,
                                calls |-> <<>>,
                                errors |-> {},
                                fake_detection_results |-> <<>>,
                                experiment_results |-> <<>>]

\* the body of the for loop, for the next selected dataset
Phase3Iteration ==
    /\ experiment.pc = "phase3"
    /\ experiment.next <= Len(experiment.selected_datasets)
    /\ LET dataset_info == experiment.selected_datasets[experiment.next]
           dataset_id == DatasetIds[experiment.next]
           n == Len(commands_of(dataset_info))
       IN \E indices \in random_sample(n, Min(num_to_modify(commands_of(dataset_info)), n)),
             now \in Clock, response \in Responses :
              experiment' = phase3_iteration(experiment, dataset_id, dataset_info,
                                             indices, now, response)
    /\ UNCHANGED <<family, store, last, uploaded, detection, scan>>

\* the end of the loop: the results are kept and returned
Phase3Return ==
    /\ experiment.pc = "phase3"
    /\ experiment.next > Len(experiment.selected_datasets)
    /\ experiment' = [experiment EXCEPT
                        !.pc = "done",
                        !.experiment_results = experiment.fake_detection_results]
    /\ UNCHANGED <<family, store, last, uploaded, detection, scan>>

NextExperiment ==
    \/ Phase3Iteration
    \/ Phase3Return

SpecExperiment == InitExperiment /\ [][NextExperiment]_vars

MarkCalls(dataset_id) ==
    {i \in DOMAIN experiment.calls :
        /\ experiment.calls[i].call = "mark_fake_data"
        /\ experiment.calls[i].dataset = dataset_id}
VerdictCalls(dataset_id) ==
    {j \in DOMAIN experiment.calls :
        /\ experiment.calls[j].call = "detect_fake_data"
        /\ experiment.calls[j].dataset = dataset_id}

C22_Phase3NeverMarks ==
    \A i \in DOMAIN experiment.calls : experiment.calls[i].call # "mark_fake_data"

-----------------------------------------------------------------------------
(* The provenance scan read by read: _trace_asset makes one state.get per
   listed user, each a separate request to the validator, so transactions
   applied by the ledger may fall between two of its reads *)

\* _trace_asset up to the loop: the admin gate, asset_id and the empty list
ScanBegin ==
    /\ family = "consortium"
    /\ scan.pc = "idle"
    /\ \E asset_id \in AssetIDs("consortium"), signer \in Signers :
          scan' = [pc |-> IF _is_admin(signer) THEN "scanning" ELSE "done",
                   asset_id |-> asset_id,
                   signer |-> signer,
                   next |-> 1,
                   trace_info |-> <<>>,
                   first_holders |-> Holders(store, asset_id),
                   quiet |-> TRUE,
                   outcome |-> IF _is_admin(signer) THEN OK
                               ELSE InvalidTransaction("NotAdmin")]
    /\ UNCHANGED <<family, store, last, uploaded, detection, experiment>>

\* one pass of the loop: json.loads(state.get(asset_address)) for the next
\* listed user, the entry it appends, and the return after the last user
ScanRead ==
    /\ family = "consortium"
    /\ scan.pc = "scanning"
    /\ LET user_id == list_users[scan.next]
           asset_address == _make_address("consortium", user_id, scan.asset_id)
           bytes == State_get(store, asset_address)
           entry == [user_id |-> user_id,
                     signatures |-> json_loads(bytes).signatures]
           trace_info == Append(scan.trace_info, entry)
       IN scan' = IF json_loads_error(bytes) # OK
                  THEN [scan EXCEPT !.pc = "done",
                                    !.outcome = json_loads_error(bytes)]
                  ELSE IF scan.next = Len(list_users)
                  THEN [scan EXCEPT !.pc = "done",
                                    !.trace_info = trace_info,
                                    !.outcome = OKWith(trace_info)]
                  ELSE [scan EXCEPT !.next = scan.next + 1,
                                    !.trace_info = trace_info]
    /\ UNCHANGED <<family, store, last, uploaded, detection, experiment>>

InitScan ==
    /\ family = "consortium"
    /\ store = EmptyStore(family)
    /\ last = [payload |-> None, operation |-> "none", args |-> <<>>, signer |-> "",
               outcome |-> OK]
    /\ uploaded = {}
    /\ detection = NoDetection
    /\ experiment = NoExperiment
    /\ scan = NoScan

\* a transaction the ledger applies, possibly while a scan is under way; the
\* scan stops being quiet when the transaction writes between two of its reads.
\* Only the ledger and the scan are observed here: the record of the last
\* transaction and of the uploads stays as it is.
ScanSubmit(operation, args, signer) ==
    /\ family = "consortium"
    /\ \E r \in {Consortium_apply_transaction(store, Payload(operation, args), signer)} :
          /\ SigsBounded(r.store)
          /\ store' = r.store
          /\ scan' = IF scan.pc = "scanning" /\ r.store # store
                     THEN [scan EXCEPT !.quiet = FALSE]
                     ELSE scan
    /\ UNCHANGED <<family, last, uploaded, detection, experiment>>

ScanAuthenticateUser ==
    \E u \in UserIDs("consortium"), s \in Signers :
        ScanSubmit("authenticate_user", <<u>>, s)

ScanUploadAsset ==
    \E u \in UserIDs("consortium"), d \in AssetData("consortium"),
       a \in AssetIDs("consortium"), s \in Signers :
        ScanSubmit("upload_asset", <<u, d, a>>, s)

ScanTransferAsset ==
    \E u \in UserIDs("consortium"), b \in UserIDs("consortium"),
       a \in AssetIDs("consortium"), s \in Signers :
        ScanSubmit("transfer_asset", <<u, b, a>>, s)

NextScan ==
    \/ ScanAuthenticateUser
    \/ ScanUploadAsset
    \/ ScanTransferAsset
    \/ ScanBegin
    \/ ScanRead

SpecScan == InitScan /\ [][NextScan]_vars

Reported(trace_info) == [i \in DOMAIN trace_info |-> trace_info[i].user_id]

\* C30: the provenance scan is not atomic: a transfer applied between two of
\* its reads can make its result differ from the holders of every single
\* ledger state, while a scan with no write between its reads reports exactly
\* the holders of one state. The formula is the second half: an admin scan
\* whose reads all saw the ledger it started on returns the holders, in
\* enumeration order, of that ledger.
C30_QuietScanReportsHolders ==
    (/\ scan.pc = "done"
     /\ scan.signer = ADMIN
     /\ scan.quiet)
        => /\ scan.outcome.exc = "None"
           /\ Reported(scan.outcome.value) = scan.first_holders

\* a scan returns only when every listed user's slot held a record at its
\* read, and no consortium operation empties a slot: what a returning scan
\* reports is the holder set of the ledger it returns on, whatever was applied
\* between its reads
C30_ReturningScanReportsCurrentHolders ==
    [][(/\ scan.pc = "scanning"
        /\ scan'.pc = "done"
        /\ scan'.outcome.exc = "None")
         => Reported(scan'.outcome.value) = Holders(store, scan.asset_id)]_vars

\* an admin scan has returned although a transfer or an upload was applied
\* between its two reads
C30_InterleavedScanReturns ==
    /\ scan.pc = "done"
    /\ scan.signer = ADMIN
    /\ ~scan.quiet
    /\ scan.outcome.exc = "None"

-----------------------------------------------------------------------------
(* Custody and history of asset records *)

\* C31: in the consortium variant, once upload_asset(s, d, a) has been
\* followed by a successful transfer_asset(s, b, a), an admin trace_asset(a)
\* reports the asset under user s with both signatures and does not report it
\* under user b, whose Address(b+a) is still absent.
C31_HistoryUnderSeller ==
    \A s \in UserIDs("consortium"), b \in UserIDs("consortium") :
        (/\ family = "consortium"
         /\ last.operation = "trace_asset"
         /\ last.signer = ADMIN
         /\ Len(last.args) = 1
         /\ <<s, last.args[1]>> \in uploaded
         /\ IsRecord(store[_make_address(family, s, last.args[1])])
         /\ Len(store[_make_address(family, s, last.args[1])].obj.signatures) = 2
         /\ store[_make_address(family, s, last.args[1])].obj.publisher = b
         /\ store[_make_address(family, b, last.args[1])] = None)
            => /\ Succeeded(last)
               /\ \E i \in DOMAIN last.outcome.value :
                     /\ last.outcome.value[i].user_id = s
                     /\ last.outcome.value[i].signatures =
                            store[_make_address(family, s, last.args[1])].obj.signatures
               /\ \A i \in DOMAIN last.outcome.value : last.outcome.value[i].user_id # b

\* the identity a record names as the one that may transfer it
Custodian(st, address) == st[address].obj.publisher

\* C32: in the consortium variant the record at Address(seller+a) is
\* transferred only by the signer equal to the buyer id of the latest
\* successful transfer: a successful transfer hands the record to its buyer
\* id, nothing else changes who holds it, and a transfer succeeds only for the
\* signer equal to the current holder; the previous signer is rejected unless
\* it equals that buyer id.
C32_CustodyHandoff ==
    [][family = "consortium" =>
         \A address \in {x \in DOMAIN store : IsRecord(store[x])} :
             IF IsTransfer(last') /\ Succeeded(last') /\ OwnerAddress(last') = address
             THEN /\ last'.signer = Custodian(store, address)
                  /\ IsRecord(store'[address])
                  /\ Custodian(store', address) = last'.args[2]
             ELSE IsRecord(store'[address])
                     => Custodian(store', address) = Custodian(store, address)]_vars

\* C32 witness: after a first transfer handed the record to another buyer
\* id, the key equal to that buyer id has transferred it again, and it is not
\* the key that uploaded the record.
C32_Witness ==
    /\ family = "consortium"
    /\ IsTransfer(last)
    /\ Succeeded(last)
    /\ IsRecord(store[OwnerAddress(last)])
    /\ Len(store[OwnerAddress(last)].obj.signatures) = 3
    /\ store[OwnerAddress(last)].obj.signatures[1]
           # sha256(store[OwnerAddress(last)].obj.data \o last.signer)

\* C33: in the public variant a successful trade_asset(seller, buyer, a)
\* signed by p takes the asset out of p's control: a later
\* trade_asset(buyer, x, a) signed by p is rejected, and only the new
\* custodian's signer can trade the record now at Address(buyer+a).
C33_CustodyHandoffPublic ==
    [][(/\ family = "public"
        /\ IsTransfer(last) /\ Succeeded(last)
        /\ IsTransfer(last')
        /\ last'.args[1] = last.args[2]
        /\ last'.args[3] = last.args[3]
        /\ last'.signer = last.signer)
         => Failed(last')]_vars

\* what the public trade does instead: the record it moves still names the
\* signer of the trade, who was its publisher before, as publisher
C33_TradeKeepsPublisher ==
    [][(/\ family = "public"
        /\ IsTransfer(last') /\ Succeeded(last')
        /\ OwnerAddress(last') # BuyerAddress(last'))
         => /\ IsRecord(store'[BuyerAddress(last')])
            /\ Custodian(store', BuyerAddress(last')) = Custodian(store, OwnerAddress(last'))
            /\ Custodian(store', BuyerAddress(last')) = last'.signer]_vars

IsPrefix(s, t) == Len(s) <= Len(t) /\ SubSeq(t, 1, Len(s)) = s

TransferredAt(call, address) ==
    IsTransfer(call) /\ Succeeded(call) /\ OwnerAddress(call) = address

\* C34: in the consortium variant every AssetRecord's signatures list is
\* non-empty and has one entry for the upload plus one per successful
\* transfer applied to its address; every operation leaves the previous list
\* as a prefix of the new one, so entries are never removed, reordered or
\* rewritten.
C34_SignatureHistory ==
    [][family = "consortium" =>
         \A address \in DOMAIN store :
             IF IsRecord(store[address])
             THEN /\ IsRecord(store'[address])
                  /\ IsPrefix(store[address].obj.signatures, store'[address].obj.signatures)
                  /\ Len(store'[address].obj.signatures) =
                         Len(store[address].obj.signatures)
                         + (IF TransferredAt(last', address) THEN 1 ELSE 0)
             ELSE IsRecord(store'[address])
                     => Len(store'[address].obj.signatures) = 1]_vars

\* the same history law for every step that leaves a record at the address
C34_HistoryWhileRecordStays ==
    [][family = "consortium" =>
         \A address \in DOMAIN store :
             IF IsRecord(store[address])
             THEN IsRecord(store'[address]) =>
                  /\ IsPrefix(store[address].obj.signatures, store'[address].obj.signatures)
                  /\ Len(store'[address].obj.signatures) =
                         Len(store[address].obj.signatures)
                         + (IF TransferredAt(last', address) THEN 1 ELSE 0)
             ELSE IsRecord(store'[address])
                     => Len(store'[address].obj.signatures) = 1]_vars

-----------------------------------------------------------------------------
(* Identifiers whose concatenations coincide: ("ab","b") and ("a","bb") in
   the consortium variant, ("block_","1b") and the bucket ("block_1","b") in
   the public one *)

IsolationUserIDs(f) == IF f = "consortium" THEN {"a", "ab"} ELSE {"a", "block_"}
IsolationAssetIDs(f) == IF f = "consortium" THEN {"b", "bb"} ELSE {"b", "1b"}
IsolationSigners == {"a"}
\* the one bucket id that is also used as a user id
BucketUsers == {"block_2"}

IsolationAddresses(f) ==
    {_make_address(f, u, a) :
        u \in IsolationUserIDs(f) \cup (IF f = "public" THEN Blocks ELSE {}),
        a \in IsolationAssetIDs(f)}

InitIsolation ==
    /\ family \in {"consortium", "public"}
    /\ store = [x \in IsolationAddresses(family) |-> None]
    /\ last = [payload |-> None, operation |-> "none", args |-> <<>>, signer |-> "",
               outcome |-> OK]
    /\ uploaded = {}
    /\ detection = NoDetection
    /\ experiment = NoExperiment
    /\ scan = NoScan

IsolationConsortiumUpload ==
    \E u \in IsolationUserIDs("consortium"), a \in IsolationAssetIDs("consortium"),
       s \in IsolationSigners :
        ConsortiumSubmit("upload_asset", <<u, "d", a>>, s)

IsolationConsortiumTransfer ==
    \E u \in IsolationUserIDs("consortium"), b \in IsolationUserIDs("consortium"),
       a \in IsolationAssetIDs("consortium"), s \in IsolationSigners :
        ConsortiumSubmit("transfer_asset", <<u, b, a>>, s)

IsolationConsortiumQuery ==
    \E u \in IsolationUserIDs("consortium"), a \in IsolationAssetIDs("consortium"),
       s \in IsolationSigners :
        ConsortiumSubmit("query_asset", <<u, a>>, s)

IsolationPublicUpload ==
    \E u \in IsolationUserIDs("public") \cup BucketUsers, a \in IsolationAssetIDs("public"), s \in IsolationSigners :
        PublicSubmit("upload_asset", <<u, "d", a>>, s)

\* trades between the users that are no buckets
IsolationPublicTrade ==
    \E u \in IsolationUserIDs("public"), b \in IsolationUserIDs("public"),
       a \in IsolationAssetIDs("public"), s \in IsolationSigners :
        PublicSubmit("trade_asset", <<u, b, a>>, s)

IsolationPublicTrace ==
    \E a \in IsolationAssetIDs("public"), s \in IsolationSigners :
        PublicSubmit("trace_asset", <<a>>, s)

NextIsolation ==
    \/ IsolationConsortiumUpload
    \/ IsolationConsortiumTransfer
    \/ IsolationConsortiumQuery
    \/ IsolationPublicUpload
    \/ IsolationPublicTrade
    \/ IsolationPublicTrace

SpecIsolation == InitIsolation /\ [][NextIsolation]_vars

\* C35: distinct (userID, assetID) pairs are stored at distinct addresses:
\* an upload_asset(u, d, a) is rejected as already existing only when the
\* address holds the record of that pair, put there by an earlier upload of
\* (u, a), and a successful transfer, trade or query of a pair works on the
\* record of that pair's asset and of no other.
C35_AddressIsolation ==
    /\ (IsUpload(last) /\ last.outcome = InvalidTransaction("AlreadyExists"))
          => /\ IsRecord(store[OwnerAddress(last)])
             /\ store[OwnerAddress(last)].obj.asset_id = last.args[3]
             /\ family = "consortium" => <<last.args[1], last.args[3]>> \in uploaded
    /\ (IsTransfer(last) /\ Succeeded(last) /\ IsRecord(store[BuyerAddress(last)]))
          => store[IF family = "consortium" THEN OwnerAddress(last)
                   ELSE BuyerAddress(last)].obj.asset_id = last.args[3]

\* with the identifiers of the ledger specification, whose concatenations
\* are all different, a rejected upload does find the record of its own pair
C35_IsolatedWhenKeysDiffer ==
    (IsUpload(last) /\ last.outcome = InvalidTransaction("AlreadyExists")
        /\ IsRecord(store[OwnerAddress(last)]))
        => store[OwnerAddress(last)].obj.asset_id = last.args[3]

\* the first bucket holding something for the asset, as the public trace
\* reads them: block_1, then block_2
Bucket(st, i, asset_id) == st[_make_address("public", blocks[i], asset_id)]

TraceReadsBuckets(call) ==
    LET b1 == Bucket(store, 1, call.args[1])
        b2 == Bucket(store, 2, call.args[1])
    IN /\ Succeeded(call) <=> (b1 # None \/ b2 # None)
       /\ b1 # None => call.outcome.value = <<b1>>
       /\ (b1 = None /\ b2 # None) => call.outcome.value = <<b2>>
       /\ Failed(call) => call.outcome = InvalidTransaction("NotFound")

IsPublicTrace(call) ==
    family = "public" /\ call.operation = "trace_asset" /\ Len(call.args) = 1

\* C36: the public trace_asset(a) succeeds exactly when Address("block_1"+a)
\* or Address("block_2"+a) holds a record, block_1 being looked at first, and
\* fails otherwise; hence an asset that was uploaded and traded only under
\* other user ids is never found by it.
C36_PublicTraceBuckets ==
    IsPublicTrace(last) =>
        /\ TraceReadsBuckets(last)
        /\ (/\ \E u \in IsolationUserIDs("public") : <<u, last.args[1]>> \in uploaded
            /\ \A k \in Blocks : <<k, last.args[1]>> \notin uploaded)
              => Failed(last)

\* the first half on its own: success, result and failure of the public trace
\* are decided by the two bucket addresses, block_1 first
C36_TraceDecidedByBuckets == IsPublicTrace(last) => TraceReadsBuckets(last)

\* a public trace has returned the record of block_1 while block_2 held
\* another one
C36_BothBucketsHeld ==
    /\ IsPublicTrace(last)
    /\ Succeeded(last)
    /\ Bucket(store, 1, last.args[1]) # None
    /\ Bucket(store, 2, last.args[1]) # None
    /\ Bucket(store, 1, last.args[1]) # Bucket(store, 2, last.args[1])

-----------------------------------------------------------------------------
(* Identical inputs under the pattern and the frequency method *)

IdenticalInputs == detection.test = detection.original

\* C37: for every command sequence, of any length, shorter than three
\* tokens and empty included, pattern_based and frequency_based detection of
\* the sequence against itself return is_fake = false with confidence 1.0.
C37_IdenticalIsGenuineOtherMethods ==
    ((Detected("pattern_based") \/ Detected("frequency_based")) /\ IdenticalInputs)
        => (~Verdict.is_fake /\ Verdict.confidence = One)

\* the frequency method does so for every sequence
C37_FrequencyIdenticalIsGenuine ==
    (Detected("frequency_based") /\ IdenticalInputs)
        => (~Verdict.is_fake /\ Verdict.confidence = One)

\* the pattern method does so for sequences of at least pattern_length
\* tokens, and calls every shorter sequence a fake of itself, with
\* confidence 1.0
C37_PatternIdenticalByLength ==
    (Detected("pattern_based") /\ IdenticalInputs)
        => /\ Verdict.confidence = One
           /\ Verdict.is_fake <=> Len(commands_of(detection.original)) < pattern_length

=============================================================================
